---------------------------- MODULE Spec2Model ----------------------------
(***************************************************************************)
(* A model of two cores of the v7 JavaScript engine:                       *)
(*                                                                         *)
(*  - the AST store of src/ast.c: the schema table ast_node_defs, the      *)
(*    writer (ast_add_node, ast_add_inlined_node, ast_insert_node,         *)
(*    ast_set_skip, ast_modify_skip) and the reader (ast_fetch_tag,        *)
(*    ast_move_to_children, ast_get_skip, ast_skip_tree) over a byte       *)
(*    buffer;                                                              *)
(*  - the ECMAScript date arithmetic of the Date module (calendar kernel,  *)
(*    break-down, ISO formatting and parsing, argument coercion, setters). *)
(*                                                                         *)
(* A byte offset o of the C buffer is element o + 1 of the sequence mbuf.  *)
(***************************************************************************)
EXTENDS Integers, Sequences, FiniteSets, TLC

(***************************************************************************)
(* Bounds of the model.                                                    *)
(***************************************************************************)
\* Nodes one writer run appends.
MaxNodes == 4

\* Nodes a writer run with free skip patches appends, and the patches.
MaxPatchNodes == 2
MaxPatches == 1

(***************************************************************************)
(* Generic helpers.                                                        *)
(***************************************************************************)
\* The result of an operation whose assert() tripped or that read outside
\* the buffer.
Fail == 0 - 1

Max(a, b) == IF a >= b THEN a ELSE b

\* n copies of the byte b.
Rep(n, b) == [i \in 1..n |-> b]

\* s with the sequence ins inserted before offset at (mbuf_insert).
InsertAt(s, at, ins) == SubSeq(s, 1, at) \o ins \o SubSeq(s, at + 1, Len(s))

(***************************************************************************)
(* The schema table, ast.c:55-381.  An entry is                            *)
(* AST_ENTRY(name, has_varint, has_inlined, num_skips, num_subtrees).      *)
(***************************************************************************)
D(n, v, i, s, c) ==
  [name |-> n, has_varint |-> v, has_inlined |-> i, num_skips |-> s,
   num_subtrees |-> c]

ast_node_defs ==
  <<
     D("NOP", 0, 0, 0, 0),   \* 0  (ast.c:56)
     D("SCRIPT", 0, 0, 2, 0),   \* 1  (ast.c:66)
     D("VAR", 0, 0, 2, 0),   \* 2  (ast.c:75)
     D("VAR_DECL", 1, 1, 0, 1),   \* 3  (ast.c:83)
     D("FUNC_DECL", 1, 1, 0, 1),   \* 4  (ast.c:91)
     D("IF", 0, 0, 2, 1),   \* 5  (ast.c:103)
     D("FUNC", 0, 0, 3, 1),   \* 6  (ast.c:123)
     D("ASSIGN", 0, 0, 0, 2),   \* 7  (ast.c:124)
     D("REM_ASSIGN", 0, 0, 0, 2),   \* 8  (ast.c:125)
     D("MUL_ASSIGN", 0, 0, 0, 2),   \* 9  (ast.c:126)
     D("DIV_ASSIGN", 0, 0, 0, 2),   \* 10  (ast.c:127)
     D("XOR_ASSIGN", 0, 0, 0, 2),   \* 11  (ast.c:128)
     D("PLUS_ASSIGN", 0, 0, 0, 2),   \* 12  (ast.c:129)
     D("MINUS_ASSIGN", 0, 0, 0, 2),   \* 13  (ast.c:130)
     D("OR_ASSIGN", 0, 0, 0, 2),   \* 14  (ast.c:131)
     D("AND_ASSIGN", 0, 0, 0, 2),   \* 15  (ast.c:132)
     D("LSHIFT_ASSIGN", 0, 0, 0, 2),   \* 16  (ast.c:133)
     D("RSHIFT_ASSIGN", 0, 0, 0, 2),   \* 17  (ast.c:134)
     D("URSHIFT_ASSIGN", 0, 0, 0, 2),   \* 18  (ast.c:135)
     D("NUM", 1, 1, 0, 0),   \* 19  (ast.c:136)
     D("IDENT", 1, 1, 0, 0),   \* 20  (ast.c:137)
     D("STRING", 1, 1, 0, 0),   \* 21  (ast.c:138)
     D("REGEX", 1, 1, 0, 0),   \* 22  (ast.c:139)
     D("LABEL", 1, 1, 0, 0),   \* 23  (ast.c:140)
     D("SEQ", 0, 0, 1, 0),   \* 24  (ast.c:149)
     D("WHILE", 0, 0, 1, 1),   \* 25  (ast.c:158)
     D("DOWHILE", 0, 0, 2, 0),   \* 26  (ast.c:169)
     D("FOR", 0, 0, 2, 3),   \* 27  (ast.c:182)
     D("FOR_IN", 0, 0, 2, 3),   \* 28  (ast.c:194)
     D("COND", 0, 0, 0, 3),   \* 29  (ast.c:195)
     D("DEBUGGER", 0, 0, 0, 0),   \* 30  (ast.c:196)
     D("BREAK", 0, 0, 0, 0),   \* 31  (ast.c:197)
     D("LAB_BREAK", 0, 0, 0, 1),   \* 32  (ast.c:204)
     D("CONTINUE", 0, 0, 0, 0),   \* 33  (ast.c:205)
     D("LAB_CONTINUE", 0, 0, 0, 1),   \* 34  (ast.c:212)
     D("RETURN", 0, 0, 0, 0),   \* 35  (ast.c:213)
     D("VAL_RETURN", 0, 0, 0, 1),   \* 36  (ast.c:214)
     D("THROW", 0, 0, 0, 1),   \* 37  (ast.c:215)
     D("TRY", 0, 0, 3, 1),   \* 38  (ast.c:231)
     D("SWITCH", 0, 0, 2, 1),   \* 39  (ast.c:243)
     D("CASE", 0, 0, 1, 1),   \* 40  (ast.c:252)
     D("DEFAULT", 0, 0, 1, 0),   \* 41  (ast.c:260)
     D("WITH", 0, 0, 1, 1),   \* 42  (ast.c:269)
     D("LOG_OR", 0, 0, 0, 2),   \* 43  (ast.c:270)
     D("LOG_AND", 0, 0, 0, 2),   \* 44  (ast.c:271)
     D("OR", 0, 0, 0, 2),   \* 45  (ast.c:272)
     D("XOR", 0, 0, 0, 2),   \* 46  (ast.c:273)
     D("AND", 0, 0, 0, 2),   \* 47  (ast.c:274)
     D("EQ", 0, 0, 0, 2),   \* 48  (ast.c:275)
     D("EQ_EQ", 0, 0, 0, 2),   \* 49  (ast.c:276)
     D("NE", 0, 0, 0, 2),   \* 50  (ast.c:277)
     D("NE_NE", 0, 0, 0, 2),   \* 51  (ast.c:278)
     D("LE", 0, 0, 0, 2),   \* 52  (ast.c:279)
     D("LT", 0, 0, 0, 2),   \* 53  (ast.c:280)
     D("GE", 0, 0, 0, 2),   \* 54  (ast.c:281)
     D("GT", 0, 0, 0, 2),   \* 55  (ast.c:282)
     D("IN", 0, 0, 0, 2),   \* 56  (ast.c:283)
     D("INSTANCEOF", 0, 0, 0, 2),   \* 57  (ast.c:284)
     D("LSHIFT", 0, 0, 0, 2),   \* 58  (ast.c:285)
     D("RSHIFT", 0, 0, 0, 2),   \* 59  (ast.c:286)
     D("URSHIFT", 0, 0, 0, 2),   \* 60  (ast.c:287)
     D("ADD", 0, 0, 0, 2),   \* 61  (ast.c:288)
     D("SUB", 0, 0, 0, 2),   \* 62  (ast.c:289)
     D("REM", 0, 0, 0, 2),   \* 63  (ast.c:290)
     D("MUL", 0, 0, 0, 2),   \* 64  (ast.c:291)
     D("DIV", 0, 0, 0, 2),   \* 65  (ast.c:292)
     D("POS", 0, 0, 0, 1),   \* 66  (ast.c:293)
     D("NEG", 0, 0, 0, 1),   \* 67  (ast.c:294)
     D("NOT", 0, 0, 0, 1),   \* 68  (ast.c:295)
     D("LOGICAL_NOT", 0, 0, 0, 1),   \* 69  (ast.c:296)
     D("VOID", 0, 0, 0, 1),   \* 70  (ast.c:297)
     D("DELETE", 0, 0, 0, 1),   \* 71  (ast.c:298)
     D("TYPEOF", 0, 0, 0, 1),   \* 72  (ast.c:299)
     D("PREINC", 0, 0, 0, 1),   \* 73  (ast.c:300)
     D("PREDEC", 0, 0, 0, 1),   \* 74  (ast.c:301)
     D("POSTINC", 0, 0, 0, 1),   \* 75  (ast.c:302)
     D("POSTDEC", 0, 0, 0, 1),   \* 76  (ast.c:303)
     D("MEMBER", 1, 1, 0, 1),   \* 77  (ast.c:312)
     D("INDEX", 0, 0, 0, 2),   \* 78  (ast.c:319)
     D("CALL", 0, 0, 1, 1),   \* 79  (ast.c:328)
     D("NEW", 0, 0, 1, 1),   \* 80  (ast.c:337)
     D("ARRAY", 0, 0, 1, 0),   \* 81  (ast.c:345)
     D("OBJECT", 0, 0, 1, 0),   \* 82  (ast.c:353)
     D("PROP", 1, 1, 0, 1),   \* 83  (ast.c:361)
     D("GETTER", 0, 0, 0, 1),   \* 84  (ast.c:367)
     D("SETTER", 0, 0, 0, 1),   \* 85  (ast.c:374)
     D("THIS", 0, 0, 0, 0),   \* 86  (ast.c:375)
     D("TRUE", 0, 0, 0, 0),   \* 87  (ast.c:376)
     D("FALSE", 0, 0, 0, 0),   \* 88  (ast.c:377)
     D("NULL", 0, 0, 0, 0),   \* 89  (ast.c:378)
     D("UNDEF", 0, 0, 0, 0),   \* 90  (ast.c:379)
     D("USE_STRICT", 0, 0, 0, 0)    \* 91  (ast.c:380)
  >>

\* ARRAY_SIZE(ast_node_defs), which the static assert makes AST_MAX_TAG.
AST_MAX_TAG == Len(ast_node_defs)

\* &ast_node_defs[tag]: the C array is indexed from 0.
Def(tag) == ast_node_defs[tag + 1]

\* enum ast_tag values the model names.
TagOf(n) == (CHOOSE k \in 1..AST_MAX_TAG : ast_node_defs[k].name = n) - 1

\* enum ast_which_skip: the first skip of every node that has skips.
AST_END_SKIP == 0

\* sizeof(ast_skip_t), ast.c:8 and the static assert of ast.c:426.
SkipSize == 2

(***************************************************************************)
(* The documented layouts, ast.c:58-373: for a tag with skips, the skips   *)
(* whose pseudo-label stands in the node's struct, in the order of the     *)
(* labels.  The label `end:` is always the last one.  A skip without a     *)
(* label (first_var, next, dummy) is not patched when the node is closed.  *)
(***************************************************************************)
Labels(tag) ==
  LET n == Def(tag).name IN
  CASE n = "IF"      -> <<1, 0>>     \* iftrue[] end_true: iffalse[] end:
    [] n = "FUNC"    -> <<2, 0>>     \* params[] body: body[] end:
    [] n = "DOWHILE" -> <<1, 0>>     \* body[] cond: cond end:
    [] n = "FOR"     -> <<1, 0>>     \* body: body[] end:
    [] n = "TRY"     -> <<1, 2, 0>>  \* try[] catch: .. finally: .. end:
    [] n = "SWITCH"  -> <<1, 0>>     \* cases[] def: default? end:
    [] OTHER -> IF Def(tag).num_skips > 0 THEN <<0>> ELSE <<>>

(***************************************************************************)
(* Variable-length integers and inlined strings.  decode_varint and        *)
(* embed_string belong to the engine's shared helpers; the format is the   *)
(* LEB128-style one of the binary AST file format: 7 bits a byte, least    *)
(* significant first, bit 7 set on every byte but the last.                *)
(***************************************************************************)
RECURSIVE encode_varint(_)
encode_varint(n) ==
  IF n < 128 THEN <<n>> ELSE <<128 + (n % 128)>> \o encode_varint(n \div 128)

\* <<value, llen>> of the varint at offset pos, Fail past the buffer.
RECURSIVE decode_varint_from(_, _, _, _)
decode_varint_from(buf, pos, i, acc) ==
  IF pos + i >= Len(buf) THEN <<Fail, i>>
  ELSE LET b == buf[pos + i + 1]
           v == acc + (b % 128) * (128 ^ i)
       IN IF b >= 128 THEN decode_varint_from(buf, pos, i + 1, v)
          ELSE <<v, i + 1>>

decode_varint(buf, pos) == decode_varint_from(buf, pos, 0, 0)

\* embed_string(m, offset, p, len, 0, 1): the varint of len and the len
\* bytes p, inserted at offset.
embed_string(buf, offset, p) == InsertAt(buf, offset, encode_varint(Len(p)) \o p)

(***************************************************************************)
(* Writer, ast.c:397-467.                                                  *)
(***************************************************************************)
\* ast_add_node: the buffer after appending the tag and zeroed skip slots.
\* mbuf_append with a NULL source reserves the bytes; the format has them
\* zero until patched.
ast_add_node(buf, tag) ==
  buf \o <<tag>> \o Rep(SkipSize * Def(tag).num_skips, 0)

\* The value ast_add_node returns: the offset one byte after the tag.
ast_add_node_ret(buf) == Len(buf) + 1

\* assert((int) skip < def->num_skips) of ast_modify_skip.
modify_skip_asserts(buf, start, skip) ==
  skip < Def(buf[start]).num_skips

\* uint16_t delta = where - start: the difference cut to 16 bits.
skip_delta(start, where) == (where - start) % 65536

\* A faulty variant of ast_modify_skip: the two bytes stored low byte first.
ast_modify_skip_low_first(buf, start, where, skip) ==
  LET p == start + skip * SkipSize
      delta == skip_delta(start, where)
  IN [buf EXCEPT ![p + 1] = delta % 256, ![p + 2] = delta \div 256]

\* ast_modify_skip: p[0] = delta >> 8; p[1] = delta & 0xff, at
\* start + skip * sizeof(ast_skip_t).
ast_modify_skip(buf, start, where, skip) ==
  LET p == start + skip * SkipSize
      delta == skip_delta(start, where)
  IN [buf EXCEPT ![p + 1] = delta \div 256, ![p + 2] = delta % 256]

\* A faulty variant of ast_set_skip: the target is the last byte written, not the
\* first byte after it.
ast_set_skip_last_byte(buf, start, skip) ==
  ast_modify_skip(buf, start, Len(buf) - 1, skip)

\* ast_set_skip: ast_modify_skip with the current buffer length as target.
ast_set_skip(buf, start, skip) == ast_modify_skip(buf, start, Len(buf), skip)

\* ast_add_inlined_node: ast_add_node, then embed_string at its payload.
ast_add_inlined_node(buf, tag, name) ==
  embed_string(ast_add_node(buf, tag), ast_add_node_ret(buf), name)

\* A faulty variant of ast_insert_node: the skip slots are appended to the
\* buffer, not inserted after the tag.
ast_insert_node_slots_appended(buf, start, tag) ==
  LET b1 == buf \o Rep(SkipSize * Def(tag).num_skips, 0)
      b2 == InsertAt(b1, start, <<tag>>)
  IN IF Def(tag).num_skips > 0 THEN ast_set_skip(b2, start + 1, AST_END_SKIP)
     ELSE b2

\* ast_insert_node: the skip slots, then the tag, inserted at start; with
\* skips, the END skip is set to the new buffer length.
ast_insert_node(buf, start, tag) ==
  LET b1 == InsertAt(buf, start, Rep(SkipSize * Def(tag).num_skips, 0))
      b2 == InsertAt(b1, start, <<tag>>)
  IN IF Def(tag).num_skips > 0 THEN ast_set_skip(b2, start + 1, AST_END_SKIP)
     ELSE b2

(***************************************************************************)
(* Reader, ast.c:469-501 and 552-570.                                      *)
(***************************************************************************)
\* ast_get_skip: pos + (p[1] | p[0] << 8); Fail when the assert
\* pos + skip * sizeof(ast_skip_t) < len does not hold or the second byte
\* lies past the buffer.
ast_get_skip(buf, pos, skip) ==
  LET p == pos + skip * SkipSize IN
  IF pos < 0 \/ p + 1 >= Len(buf) THEN Fail
  ELSE pos + (buf[p + 2] + buf[p + 1] * 256)

\* ast_fetch_tag: <<tag, new cursor>>; Fail when assert(*pos < len) trips.
ast_fetch_tag(buf, pos) ==
  IF pos < 0 \/ pos >= Len(buf) THEN <<Fail, Fail>> ELSE <<buf[pos + 1], pos + 1>>

\* A faulty variant of ast_move_to_children: the varint is passed, the inlined bytes
\* it counts are not.
ast_move_to_children_no_inlined(buf, pos) ==
  LET def == Def(buf[pos])
      vi  == decode_varint(buf, pos)
  IN IF def.has_varint = 1 /\ vi[1] = Fail THEN Fail
     ELSE pos + (IF def.has_varint = 1 THEN vi[2] ELSE 0)
              + def.num_skips * SkipSize

\* A faulty variant of ast_move_to_children: a skip slot counted as one byte.
ast_move_to_children_byte_slots(buf, pos) ==
  LET def == Def(buf[pos])
      vi  == decode_varint(buf, pos)
      p1  == IF def.has_varint = 1
             THEN pos + vi[2] + (IF def.has_inlined = 1 THEN vi[1] ELSE 0)
             ELSE pos
  IN IF def.has_varint = 1 /\ vi[1] = Fail THEN Fail
     ELSE p1 + def.num_skips

\* ast_move_to_children: the cursor, just past the tag, moved past the
\* varint and the inlined bytes (decoded at the cursor) and then past the
\* skip slots.
ast_move_to_children(buf, pos) ==
  LET tag == buf[pos]
      def == Def(tag)
      vi  == decode_varint(buf, pos)
      p1  == IF def.has_varint = 1
             THEN pos + vi[2] + (IF def.has_inlined = 1 THEN vi[1] ELSE 0)
             ELSE pos
  IN IF def.has_varint = 1 /\ vi[1] = Fail THEN Fail
     ELSE p1 + def.num_skips * SkipSize

RECURSIVE ast_skip_tree(_, _)
RECURSIVE skip_subtrees(_, _, _)
RECURSIVE skip_until(_, _, _)

\* for (i = 0; i < def->num_subtrees; i++) ast_skip_tree(a, pos);
skip_subtrees(buf, pos, n) ==
  IF n = 0 \/ pos = Fail THEN pos
  ELSE skip_subtrees(buf, ast_skip_tree(buf, pos), n - 1)

\* while (*pos < end) ast_skip_tree(a, pos);
skip_until(buf, pos, end) ==
  IF pos = Fail \/ end = Fail THEN Fail
  ELSE IF pos < end THEN skip_until(buf, ast_skip_tree(buf, pos), end)
  ELSE pos

\* ast_skip_tree: the cursor after one complete node, Fail when an assert
\* trips or the tag read is no tag of the table.
ast_skip_tree(buf, pos) ==
  LET ft == ast_fetch_tag(buf, pos) IN
  IF ft[1] = Fail \/ ft[1] >= AST_MAX_TAG THEN Fail
  ELSE LET tag == ft[1]
           skips == ft[2]
           p1 == ast_move_to_children(buf, skips)
           p2 == skip_subtrees(buf, p1, Def(tag).num_subtrees)
       IN IF p1 = Fail \/ p2 = Fail THEN Fail
          ELSE IF Def(tag).num_skips > 0
               THEN skip_until(buf, p2, ast_get_skip(buf, skips, AST_END_SKIP))
               ELSE p2

(***************************************************************************)
(* State.                                                                  *)
(*   mbuf      the AST buffer (a->mbuf), a sequence of bytes               *)
(*   open      the writer's nodes not yet closed, innermost last: the      *)
(*             payload offset ast_add_node returned, the tag, the children *)
(*             appended so far and the next label of Labels(tag) to patch  *)
(*   closed    the complete nodes: offset of the tag byte and offset of    *)
(*             the first byte after the node                               *)
(*   asserted  an assert() of the writer tripped (the program aborted)     *)
(*   lastop    the last skip patch asked for                               *)
(*   patches   skip patches made outside the closing discipline            *)
(*                                                                         *)
(*   host      what the host gives the date module: its libc, the global   *)
(*             `timezone` (seconds west of UTC) and whether it has DST     *)
(*   this_time the instant a Date object holds (its hidden property)       *)
(*   made      the fields the Date object was built from                   *)
(*   out       the last Date method called and what it returned            *)
(*   calls     calls of Date methods that store a new instant              *)
(***************************************************************************)
VARIABLES mbuf, open, closed, asserted, lastop, patches,
          host, this_time, made, out, calls

vars == <<mbuf, open, closed, asserted, lastop, patches,
          host, this_time, made, out, calls>>

astvars == <<mbuf, open, closed, asserted, lastop, patches>>

datevars == <<host, this_time, made, out, calls>>

\* Tags the writer is asked to append: every tag with a label besides
\* `end:`, and tags that take ast_skip_tree through each of its paths (no
\* payload; inlined data with and without a fixed child, hence fixed
\* children without skips; two and three skips, with no, one and three
\* fixed children).
WriterTagNames ==
  {"NOP", "IDENT", "VAR_DECL", "IF", "DOWHILE", "FOR", "SWITCH", "FUNC",
   "TRY"}

WriterTags == {t \in 0..(AST_MAX_TAG - 1) : Def(t).name \in WriterTagNames}

\* Inlined strings the writer embeds: the empty one and the shortest whose
\* length takes a second varint byte.  The bytes are 'x' (120).
InlineLens == {0, 128}

NodeCount == Cardinality(closed) + Len(open)

Top == open[Len(open)]

\* A child may be appended: the root into an empty buffer, or below the
\* innermost open node, as a fixed child or, for a node with skips, as a
\* trailing child.
CanAppend(limit) ==
  /\ ~asserted
  /\ NodeCount < limit
  /\ \/ open = <<>> /\ mbuf = <<>>
     \/ open # <<>> /\ \/ Top.kids < Def(Top.tag).num_subtrees
                       \/ Def(Top.tag).num_skips > 0

\* The open nodes and the closed ones after a child of the innermost open
\* node became complete at buffer length len: a node without skips is
\* complete with its last fixed child.
RECURSIVE Settle(_, _, _)
Settle(stack, cl, len) ==
  IF stack = <<>> THEN <<stack, cl>>
  ELSE LET n    == Len(stack)
           top  == stack[n]
           kids == top.kids + 1
       IN IF Def(top.tag).num_skips = 0 /\ kids = Def(top.tag).num_subtrees
          THEN Settle(SubSeq(stack, 1, n - 1),
                      cl \cup {[at |-> top.start - 1, end |-> len]}, len)
          ELSE <<[stack EXCEPT ![n].kids = kids], cl>>

\* The writer's bookkeeping after appending the node of `tag` as buf.
Appended(buf, tag) ==
  LET start == Len(mbuf) + 1 IN
  IF Def(tag).num_skips = 0 /\ Def(tag).num_subtrees = 0
  THEN LET r == Settle(open, closed \cup {[at |-> start - 1, end |-> Len(buf)]},
                       Len(buf))
       IN open' = r[1] /\ closed' = r[2]
  ELSE /\ open' = Append(open, [start |-> start, tag |-> tag, kids |-> 0,
                                 lab |-> 1])
       /\ closed' = closed

NoPatch == [kind |-> "none", start |-> 0, where |-> 0, which |-> 0]

ASTInit ==
  /\ mbuf = <<>>
  /\ open = <<>>
  /\ closed = {}
  /\ asserted = FALSE
  /\ lastop = NoPatch
  /\ patches = 0

\* ast_add_node(a, tag) for a tag without inlined data.
AddNode(limit, tag) ==
  /\ CanAppend(limit)
  /\ Def(tag).has_inlined = 0
  /\ mbuf' = ast_add_node(mbuf, tag)
  /\ Appended(mbuf', tag)
  /\ UNCHANGED <<asserted, lastop, patches, datevars>>

\* ast_add_inlined_node(a, tag, name, len); assert(has_inlined).
AddInlinedNode(limit, tag, len) ==
  /\ CanAppend(limit)
  /\ Def(tag).has_inlined = 1
  /\ mbuf' = ast_add_inlined_node(mbuf, tag, Rep(len, 120))
  /\ Appended(mbuf', tag)
  /\ UNCHANGED <<asserted, lastop, patches, datevars>>

\* ast_set_skip(a, start, which) for the next label of the innermost open
\* node, once its fixed children are there; patching `end:` closes it.
SetSkip ==
  /\ ~asserted
  /\ open # <<>>
  /\ Top.kids >= Def(Top.tag).num_subtrees
  /\ Top.lab <= Len(Labels(Top.tag))
  /\ LET which == Labels(Top.tag)[Top.lab]
         n == Len(open)
     IN /\ modify_skip_asserts(mbuf, Top.start, which)
        /\ mbuf' = ast_set_skip(mbuf, Top.start, which)
        /\ lastop' = [kind |-> "set", start |-> Top.start, where |-> Len(mbuf),
                      which |-> which]
        /\ IF Top.lab = Len(Labels(Top.tag))
           THEN LET r == Settle(SubSeq(open, 1, n - 1),
                                closed \cup {[at |-> Top.start - 1,
                                              end |-> Len(mbuf)]}, Len(mbuf))
                IN open' = r[1] /\ closed' = r[2]
           ELSE open' = [open EXCEPT ![n].lab = Top.lab + 1] /\ closed' = closed
  /\ UNCHANGED <<asserted, patches, datevars>>

\* Payload offsets of the nodes in the buffer, open or closed.
PayloadStarts ==
  {open[i].start : i \in 1..Len(open)} \cup {n.at + 1 : n \in closed}

\* Targets a caller hands to ast_modify_skip: inside the buffer, before the
\* node, and 64k or more past the payload start.
PatchTargets(start) ==
  {start - 1, start, Len(mbuf), start + 65535, start + 65536, start + 65541}

\* ast_modify_skip(a, start, where, which) called on its own.  The assert
\* stops the program; nothing else checks the call.
ModifySkip(start, where, which) ==
  /\ ~asserted
  /\ patches < MaxPatches
  /\ start \in PayloadStarts
  /\ patches' = patches + 1
  /\ lastop' = [kind |-> "modify", start |-> start, where |-> where,
                which |-> which]
  /\ IF modify_skip_asserts(mbuf, start, which)
     THEN mbuf' = ast_modify_skip(mbuf, start, where, which)
          /\ asserted' = asserted
     ELSE mbuf' = mbuf /\ asserted' = TRUE
  /\ UNCHANGED <<open, closed, datevars>>

\* ast_set_skip(a, start, which) called on its own, on any node.
PatchSetSkip(start, which) ==
  /\ ~asserted
  /\ patches < MaxPatches
  /\ start \in PayloadStarts
  /\ patches' = patches + 1
  /\ lastop' = [kind |-> "set", start |-> start, where |-> Len(mbuf),
                which |-> which]
  /\ IF modify_skip_asserts(mbuf, start, which)
     THEN mbuf' = ast_set_skip(mbuf, start, which) /\ asserted' = asserted
     ELSE mbuf' = mbuf /\ asserted' = TRUE
  /\ UNCHANGED <<open, closed, datevars>>

\* No Date object is in play in the AST specifications.
DateOff ==
  /\ host = [libc |-> "glibc", timezone |-> 0, dst |-> FALSE,
             datemsk |-> FALSE]
  /\ this_time = [nan |-> TRUE, day |-> 0, ms |-> 0]
  /\ made = <<>>
  /\ out = [op |-> "none"]
  /\ calls = 0

Init == ASTInit /\ DateOff

\* The writer keeping to the documented layouts.
Next ==
  \/ \E tag \in WriterTags : AddNode(MaxNodes, tag)
  \/ \E tag \in WriterTags, len \in InlineLens : AddInlinedNode(MaxNodes, tag, len)
  \/ SetSkip

Spec == Init /\ [][Next]_vars

\* The writer with skip patches made at any time, with any arguments.
PatchNext ==
  \/ \E tag \in WriterTags : AddNode(MaxPatchNodes, tag)
  \/ \E tag \in WriterTags, len \in InlineLens :
        AddInlinedNode(MaxPatchNodes, tag, len)
  \/ SetSkip
  \/ \E start \in 1..Len(mbuf), which \in 0..3 :
        \E where \in PatchTargets(start) : ModifySkip(start, where, which)
  \/ \E start \in 1..Len(mbuf), which \in 0..3 : PatchSetSkip(start, which)

PatchSpec == Init /\ [][PatchNext]_vars

(***************************************************************************)
(* Claims about the AST store.                                             *)
(***************************************************************************)
\* A closed node's tag, skips and payload offset.
TagAt(n) == mbuf[n.at + 1]
SkipsOf(n) == Def(TagAt(n)).num_skips

\* C1: ast_skip_tree started at the first byte of any complete node ends on
\* the first byte after that node, and started at offset 0 of a complete
\* tree it ends at the buffer length.
C1_SkipTreeRoundTrip ==
  /\ \A n \in closed : ast_skip_tree(mbuf, n.at) = n.end
  /\ (open = <<>> /\ mbuf # <<>>) => ast_skip_tree(mbuf, 0) = Len(mbuf)

\* C1 witness: a complete tree of MaxNodes nodes whose root has skips and
\* which holds an inlined string with a two-byte varint.
C1_Witness ==
  /\ open = <<>>
  /\ Cardinality(closed) = MaxNodes
  /\ Def(mbuf[1]).num_skips > 0
  /\ \E n \in closed : Def(TagAt(n)).has_inlined = 1 /\ n.end - n.at > 128
  /\ ast_skip_tree(mbuf, 0) = Len(mbuf)

\* C2, as claimed: a skip patch whose delta is 65536 or more, or whose skip
\* index is not one of the tag's skips, trips an assertion.
C2_OversizeDeltaAsserts ==
  (/\ lastop.kind \in {"modify", "set"}
   /\ \/ lastop.where - lastop.start >= 65536
      \/ lastop.which >= Def(mbuf[lastop.start]).num_skips)
  => asserted

\* C3, as amended: the END skip of a complete node with skips reaches at
\* least past its skip slots (and inlined data), and no other skip of the
\* node decodes to more than the END skip.
C3_EndIsLargestSkip ==
  \A n \in closed :
    SkipsOf(n) > 0 =>
      /\ ast_get_skip(mbuf, n.at + 1, AST_END_SKIP)
           >= ast_move_to_children(mbuf, n.at + 1)
      /\ ast_move_to_children(mbuf, n.at + 1) >= n.at + 1 + SkipSize * SkipsOf(n)
      /\ \A k \in 1..(SkipsOf(n) - 1) :
           ast_get_skip(mbuf, n.at + 1, k)
             <= ast_get_skip(mbuf, n.at + 1, AST_END_SKIP)

\* C3 witness: a complete TRY whose catch, finally and end skips are
\* strictly increasing.
C3_Witness ==
  \E n \in closed :
    /\ Def(TagAt(n)).name = "TRY"
    /\ ast_get_skip(mbuf, n.at + 1, 1) < ast_get_skip(mbuf, n.at + 1, 2)
    /\ ast_get_skip(mbuf, n.at + 1, 2) < ast_get_skip(mbuf, n.at + 1, 0)

\* C3, as claimed: the skips of a complete node are non-decreasing in slot
\* order, slot 0 (END) first.
C3_SkipsNonDecreasingInSlotOrder ==
  \A n \in closed :
    \A k \in 0..(SkipsOf(n) - 2) :
      ast_get_skip(mbuf, n.at + 1, k) <= ast_get_skip(mbuf, n.at + 1, k + 1)

\* C4, as amended: for a complete node whose tag has skips, the first (END)
\* skip alone gives the first byte after the node.
C4_EndSkipPassesNodesWithSkips ==
  \A n \in closed :
    SkipsOf(n) > 0 => ast_get_skip(mbuf, n.at + 1, AST_END_SKIP) = n.end

\* C4 witness: a complete node with skips, a fixed child and trailing
\* children.
C4_Witness ==
  \E n \in closed :
    /\ SkipsOf(n) > 0
    /\ Def(TagAt(n)).num_subtrees > 0
    /\ Cardinality({c \in closed : n.at < c.at /\ c.end <= n.end}) >= 3
    /\ ast_get_skip(mbuf, n.at + 1, AST_END_SKIP) = n.end

\* C4, as claimed: for a complete node of any tag, a reader that decodes the
\* two bytes after the tag as the END skip arrives after the node.
C4_EndSkipPassesEveryNode ==
  \A n \in closed : ast_get_skip(mbuf, n.at + 1, AST_END_SKIP) = n.end
\* ===========================================================================
\* Date module (src/unnamed/part_000)
\* ===========================================================================

\* Calendar constants, part_000:27-34.
msPerDay == 86400000
HoursPerDay == 24
MinutesPerHour == 60
SecondsPerMinute == 60
msPerSecond == 1000
msPerMinute == 60000
msPerHour == 3600000
MonthInYear == 12

\* C integer division and remainder: the quotient is cut toward zero and the
\* remainder takes the sign of the dividend (b > 0 everywhere below).
CDiv(a, b) == IF a >= 0 THEN a \div b ELSE 0 - ((0 - a) \div b)

CRem(a, b) == a - b * CDiv(a, b)

\* etime_t (part_000:20) is a double holding milliseconds since the epoch.
\* Its integer values run past 32 bits, so an instant is kept as the pair
\* day = floor(t / msPerDay), ms = t - day * msPerDay, i.e. t = day * msPerDay
\* + ms with 0 <= ms < msPerDay; nan marks INVALID_TIME (part_000:23).
INVALID_TIME == [nan |-> TRUE, day |-> 0, ms |-> 0]

\* The instant day * msPerDay + ms for any integers day, ms.
Instant(day, ms) ==
  [nan |-> FALSE, day |-> day + (ms \div msPerDay), ms |-> ms % msPerDay]

\* t + delta for an integer number of milliseconds delta.
TimeAdd(t, delta) == Instant(t.day, t.ms + delta)

\* a <= b and a > b on instants.
TimeLE(a, b) == a.day < b.day \/ (a.day = b.day /\ a.ms <= b.ms)

TimeGT(a, b) == ~TimeLE(a, b)

\* part_000:36-38: floor(t / msPerDay), a floor on doubles.
ecma_Day(t) == t.day

\* part_000:41-53.
ecma_DaysInYear(y) ==
  IF CRem(y, 4) # 0 THEN 365
  ELSE IF CRem(y, 4) = 0 /\ CRem(y, 100) # 0 THEN 366
  ELSE IF CRem(y, 100) = 0 /\ CRem(y, 400) # 0 THEN 365
  ELSE IF CRem(y, 400) = 0 THEN 366
  ELSE 365

\* part_000:55-58: y is etimeint_t, so (y-1969)/4, (y-1901)/100 and
\* (y-1601)/400 are integer divisions, cut toward zero before floor() sees
\* them.
ecma_DayFromYear(y) ==
  365 * (y - 1970) + CDiv(y - 1969, 4) - CDiv(y - 1901, 100)
                   + CDiv(y - 1601, 400)

\* part_000:60-62.
ecma_TimeFromYear(y) == Instant(ecma_DayFromYear(y), 0)

\* The while loop of part_000:75-88.
RECURSIVE YearLoop(_, _, _)
YearLoop(first, last, t) ==
  IF ~(last > first) THEN first
  ELSE LET middle == CDiv(last + first, 2) IN
       IF TimeGT(ecma_TimeFromYear(middle), t)
       THEN YearLoop(first, middle - 1, t)
       ELSE IF TimeLE(ecma_TimeFromYear(middle), t)
            THEN IF TimeGT(ecma_TimeFromYear(middle + 1), t)
                 THEN middle
                 ELSE YearLoop(middle + 1, last, t)
            ELSE YearLoop(first, last, t)

\* part_000:64-91. floor((t / msPerDay) / n) = floor(Day(t) / n).
ecma_YearFromTime_s(t) ==
  LET first == (t.day \div 366) + 1970
      last == (t.day \div 365) + 1970
  IN IF last < first THEN YearLoop(last, first, t)
     ELSE YearLoop(first, last, t)

\* part_000:93-96.
ecma_InLeapYear(t, year) == ecma_DaysInYear(year) = 366

\* part_000:98-100.
ecma_DayWithinYear(t, year) == ecma_Day(t) - ecma_DayFromYear(year)

\* part_000:102-113: days[i] is ecma_getfirstdays(isleap)[i + 1].
ecma_getfirstdays(isleap) ==
  LET sdays == <<0, 31, 59, 90, 120, 151, 181, 212, 243, 273, 304, 334, 365>>
  IN [i \in 1..13 |-> IF isleap /\ i - 1 >= 2 THEN sdays[i] + 1 ELSE sdays[i]]

\* part_000:115-132: the first i with days[i] <= dwy < days[i+1], else -1.
ecma_MonthFromTime(t, year) ==
  LET days == ecma_getfirstdays(ecma_InLeapYear(t, year))
      dwy == ecma_DayWithinYear(t, year)
      hits == {i \in 0..(MonthInYear - 1) :
                 dwy >= days[i + 1] /\ dwy < days[i + 2]}
  IN IF hits = {} THEN 0 - 1
     ELSE CHOOSE i \in hits : \A j \in hits : i <= j

\* part_000:134-147. With mft = -1 the read days[mft] is one int below the
\* local array: g is the value found there.
ecma_DateFromTime(t, year, g) ==
  LET mft == ecma_MonthFromTime(t, year)
      dwy == ecma_DayWithinYear(t, year)
      days == ecma_getfirstdays(ecma_InLeapYear(t, year))
  IN IF mft > 11 THEN 0 - 1
     ELSE dwy - (IF mft >= 0 THEN days[mft + 1] ELSE g) + 1

\* part_000:149-151.
ecma_WeekDay(t) == CRem(ecma_Day(t) + 4, 7)

\* (etimeint_t) floor(t / unit) % m of part_000:177-191, for unit * m dividing
\* msPerDay: floor(t / unit) = day * (msPerDay / unit) + ms \div unit, whose
\* residue mod m is that of ms \div unit, and the C remainder of a negative
\* quotient is the residue minus m unless the residue is 0.
FloorRem(t, unit, m) ==
  LET r == (t.ms \div unit) % m
  IN IF t.day >= 0 \/ r = 0 THEN r ELSE r - m

\* part_000:177-179.
ecma_HourFromTime(t) == FloorRem(t, msPerHour, HoursPerDay)

\* part_000:181-183.
ecma_MinFromTime(t) == FloorRem(t, msPerMinute, MinutesPerHour)

\* part_000:185-187.
ecma_SecFromTime(t) == FloorRem(t, msPerSecond, SecondsPerMinute)

\* part_000:189-191: (etimeint_t) t % msPerSecond.
ecma_msFromTime(t) == FloorRem(t, 1, msPerSecond)


\* The host's zone rule behind localtime_r (part_000:157): the libc global
\* `timezone` is host.timezone seconds west of UTC, and a host with summer
\* time reports tm_isdst > 0 for the days 90..299 of each 365-day cycle.
HostIsDst(s) == host.dst /\ (s.day % 365) \in 90..299

\* part_000:153-163. `time_t time = t / 1000` cuts toward zero, which only
\* matters for the last second before the epoch.
ecma_DaylightSavingTA(t) ==
  LET secs == IF t.day = 0 - 1 /\ t.ms > msPerDay - msPerSecond
              THEN Instant(0, 0) ELSE t
  IN IF HostIsDst(secs) THEN msPerHour ELSE 0

\* part_000:165-167.
ecma_LocalTZA == (0 - host.timezone) * 1000

\* part_000:169-171.
ecma_LocalTime(t) == TimeAdd(t, ecma_LocalTZA + ecma_DaylightSavingTA(t))

\* A faulty variant of ecma_UTC: the summer time is evaluated at t, not at
\* t - LocalTZA.
ecma_UTC_dst_at_t(t) ==
  TimeAdd(t, 0 - ecma_LocalTZA - ecma_DaylightSavingTA(t))

\* part_000:173-175.
ecma_UTC(t) ==
  TimeAdd(t, 0 - ecma_LocalTZA
             - ecma_DaylightSavingTA(TimeAdd(t, 0 - ecma_LocalTZA)))

\* part_000:193-197.
ecma_MakeTime(hour, min, sec, ms) ==
  ((hour * MinutesPerHour + min) * SecondsPerMinute + sec) * msPerSecond + ms

\* part_000:199-217. month / 12 and month % 12 are C integer operations; for
\* a negative remainder days[month] is read below the local array and g is
\* the value found there.
ecma_MakeDay(year, month, date, g) ==
  LET year2 == year + CDiv(month, 12)
      month2 == CRem(month, 12)
      yday == ecma_DayFromYear(year2)
      days == ecma_getfirstdays(ecma_DaysInYear(year2) = 366)
      mday == IF month2 >= 0 THEN days[month2 + 1] ELSE g
  IN yday + mday + date - 1

\* part_000:219-221.
ecma_MakeDate(day, time) == Instant(day, time)

\* struct timeparts, part_000:225-234.
timeparts(year, month, day, hour, min, sec, msec, dayofweek) ==
  [year |-> year, month |-> month, day |-> day, hour |-> hour, min |-> min,
   sec |-> sec, msec |-> msec, dayofweek |-> dayofweek]

\* memset(&tp, 0, sizeof(tp)), part_000:369 and :651.
ZeroTP == timeparts(0, 0, 0, 0, 0, 0, 0, 0)

\* part_000:236-238.
d_istimeinvalid(t) == t.nan

\* part_000:248-250: minutes west of UTC.
d_gettimezone == CDiv(host.timezone, 60)

\* part_000:256-259.
d_mktime_impl(tp, g) ==
  ecma_MakeDate(ecma_MakeDay(tp.year, tp.month, tp.day, g),
                ecma_MakeTime(tp.hour, tp.min, tp.sec, tp.msec))

\* part_000:263-265.
d_lmktime(tp, g) == ecma_UTC(d_mktime_impl(tp, g))

\* part_000:267-269.
d_gmktime(tp, g) == d_mktime_impl(tp, g)

\* part_000:276-282, with tp->year already stored.
BreakDown(t, year, g) ==
  timeparts(year, ecma_MonthFromTime(t, year),
            ecma_DateFromTime(t, year, g), ecma_HourFromTime(t),
            ecma_MinFromTime(t), ecma_SecFromTime(t), ecma_msFromTime(t),
            ecma_WeekDay(t))

\* part_000:274-283.
d_gmtime(t, g) == BreakDown(t, ecma_YearFromTime_s(t), g)

\* part_000:285-288.
d_localtime(t, g) == d_gmtime(ecma_LocalTime(t), g)


\* ---------------------------------------------------------------------------
\* Strings, printf and sscanf. A C string is the sequence of its characters,
\* each a one-character string.
\* ---------------------------------------------------------------------------

DigitChars == <<"0", "1", "2", "3", "4", "5", "6", "7", "8", "9">>

IsDigit(c) == \E i \in 1..10 : DigitChars[i] = c

DigitVal(c) == (CHOOSE i \in 1..10 : DigitChars[i] = c) - 1

IsSpace(c) == c = " "

Min(a, b) == IF a <= b THEN a ELSE b

Abs(a) == IF a < 0 THEN 0 - a ELSE a

\* The decimal digits of n >= 0.
RECURSIVE Digits(_)
Digits(n) ==
  IF n < 10 THEN <<DigitChars[n + 1]>>
  ELSE Digits(n \div 10) \o <<DigitChars[(n % 10) + 1]>>

\* printf's %0<width>d: the sign counts toward the width, the zeros go
\* between the sign and the digits.
FmtD(v, width) ==
  LET ds == Digits(Abs(v))
      sign == IF v < 0 THEN <<"-">> ELSE <<>>
      pad == Max(0, width - Len(sign) - Len(ds))
  IN sign \o Rep(pad, "0") \o ds

\* The first n characters of s.
Take(s, n) == SubSeq(s, 1, Min(n, Len(s)))

\* part_000:323-330, once d_gmtime has filled tp. The result is <<returned
\* length, characters stored>>: snprintf stores at most buf_size - use_ext - 1
\* characters and returns the length the whole text has.
ISOstr(tp, buf_size) ==
  LET use_ext == IF Abs(tp.year) > 9999 \/ tp.year < 0 THEN 1 ELSE 0
      head == IF use_ext = 1
              THEN <<IF tp.year > 0 THEN "+" ELSE "-">> ELSE <<>>
      text == FmtD(tp.year, IF use_ext = 1 THEN 6 ELSE 4) \o <<"-">>
              \o FmtD(tp.month + 1, 2) \o <<"-">> \o FmtD(tp.day, 2)
              \o <<"T">> \o FmtD(tp.hour, 2) \o <<":">> \o FmtD(tp.min, 2)
              \o <<":">> \o FmtD(tp.sec, 2) \o <<".">> \o FmtD(tp.msec, 3)
              \o <<"Z">>
  IN <<Len(text) + use_ext, head \o Take(text, buf_size - use_ext - 1)>>

\* part_000:312-331.
d_timetoISOstr(t, buf_size, g) == ISOstr(d_gmtime(t, g), buf_size)

\* v7_create_string(v7, buf, len, 1): the first len characters of buf.
CreateString(r) == Take(r[2], r[1])

\* part_000:778-789, with its buf[30].
Date_toISOString(t, g) == CreateString(d_timetoISOstr(t, 30, g))


\* sscanf. A format is a sequence of directives:
\*   Ws          white space in the format: skips any white space
\*   Lit(c)      an ordinary character: must be the next input character
\*   ConvD(w)    %d or %<w>d (w = 0: no width)
\*   ConvS(w)    %<w>s
\*   SkipS(w)    %<w>*s, the assignment-suppressing star placed after the
\*               width: BSD libc reads flags and width in any order and skips
\*               a word, glibc and musl take `*` for the conversion character
\*               and stop there
\*   Rest        %[^ followed by the end of the format (the array holds an
\*               embedded \0): BSD libc takes the unterminated set for "every
\*               character" and stores the rest of the input, glibc stops
Ws == [k |-> "ws", c |-> "", w |-> 0]

Lit(ch) == [k |-> "lit", c |-> ch, w |-> 0]

ConvD(width) == [k |-> "d", c |-> "", w |-> width]

ConvS(width) == [k |-> "s", c |-> "", w |-> width]

SkipS(width) == [k |-> "skip_s", c |-> "", w |-> width]

Rest == [k |-> "rest", c |-> "", w |-> 0]

EOF == 0 - 1

\* The first position from p on that holds no white space (Len(s) + 1 if
\* there is none).
RECURSIVE SkipSpace(_, _)
SkipSpace(s, p) ==
  IF p <= Len(s) /\ IsSpace(s[p]) THEN SkipSpace(s, p + 1) ELSE p

\* The first position from p up to lim + 1 that holds no digit.
RECURSIVE DigitsEnd(_, _, _)
DigitsEnd(s, p, lim) ==
  IF p <= lim /\ IsDigit(s[p]) THEN DigitsEnd(s, p + 1, lim) ELSE p

\* The first position from p up to lim + 1 that holds white space.
RECURSIVE WordEnd(_, _, _)
WordEnd(s, p, lim) ==
  IF p <= lim /\ ~IsSpace(s[p]) THEN WordEnd(s, p + 1, lim) ELSE p

\* The number written by the digits s[a..b] (0 if a > b).
RECURSIVE NumVal(_, _, _)
NumVal(s, a, b) ==
  IF a > b THEN 0 ELSE NumVal(s, a, b - 1) * 10 + DigitVal(s[b])

\* The last input position a conversion of width w starting at p may use.
FieldLimit(s, p, w) == IF w = 0 THEN Len(s) ELSE Min(Len(s), p + w - 1)

\* What sscanf returns when the input ends: EOF if nothing was converted
\* (BSD counts suppressed conversions, glibc only assignments).
InputFailure(done, nconv) ==
  IF host.libc = "bsd"
  THEN (IF nconv # 0 THEN done ELSE EOF)
  ELSE (IF done # 0 THEN done ELSE EOF)

\* sscanf(s, fmt, ...) from input position p and directive k on, with `done`
\* assignments made into vals and nconv conversions completed so far. The
\* result is [n |-> the value returned, vals |-> the values stored, in
\* argument order].
RECURSIVE Scan(_, _, _, _, _, _, _)
Scan(s, p, fmt, k, done, nconv, vals) ==
  IF k > Len(fmt) THEN [n |-> done, vals |-> vals]
  ELSE
    LET d == fmt[k]
        stop == [n |-> done, vals |-> vals]
        fail == [n |-> InputFailure(done, nconv), vals |-> vals]
        q == SkipSpace(s, p)
    IN
    CASE d.k = "ws" -> Scan(s, q, fmt, k + 1, done, nconv, vals)
      [] d.k = "lit" ->
           IF p > Len(s) THEN fail
           ELSE IF s[p] # d.c THEN stop
           ELSE Scan(s, p + 1, fmt, k + 1, done, nconv, vals)
      [] d.k = "d" ->
           IF q > Len(s) THEN fail
           ELSE
             LET lim == FieldLimit(s, q, d.w)
                 signed == s[q] \in {"+", "-"}
                 a == IF signed THEN q + 1 ELSE q
                 b == DigitsEnd(s, a, lim)
                 v == NumVal(s, a, b - 1)
             IN IF b = a THEN stop
                ELSE Scan(s, b, fmt, k + 1, done + 1, nconv + 1,
                          Append(vals, IF s[q] = "-" THEN 0 - v ELSE v))
      [] d.k = "s" ->
           IF q > Len(s) THEN fail
           ELSE LET b == WordEnd(s, q, FieldLimit(s, q, d.w))
                IN Scan(s, b, fmt, k + 1, done + 1, nconv + 1,
                        Append(vals, SubSeq(s, q, b - 1)))
      [] d.k = "skip_s" ->
           IF host.libc # "bsd" THEN stop
           ELSE IF q > Len(s) THEN fail
           ELSE LET b == WordEnd(s, q, FieldLimit(s, q, d.w))
                IN Scan(s, b, fmt, k + 1, done, nconv + 1, vals)
      [] d.k = "rest" ->
           IF host.libc # "bsd" THEN stop
           ELSE IF p > Len(s) THEN fail
           ELSE Scan(s, Len(s) + 1, fmt, k + 1, done + 1, nconv + 1,
                     Append(vals, SubSeq(s, p, Len(s))))

sscanf(s, fmt) == Scan(s, 1, fmt, 1, 0, 0, <<>>)

\* The timeparts after sscanf stored vals into the fields named, in order,
\* by targets (names that are no field of tp are other variables).
Stored(tp, targets, vals) ==
  [f \in DOMAIN tp |->
     IF \E i \in 1..Len(vals) : targets[i] = f
     THEN vals[CHOOSE i \in 1..Len(vals) : targets[i] = f]
     ELSE tp[f]]

\* The value sscanf stored for the target `name`, or dflt if it stored none.
StoredVar(name, dflt, targets, vals) ==
  IF \E i \in 1..Len(vals) : targets[i] = name
  THEN vals[CHOOSE i \in 1..Len(vals) : targets[i] = name]
  ELSE dflt


\* C's != on doubles: true as soon as one side is NaN.
FloatNE(a, b) == a.nan \/ b.nan \/ a.day # b.day \/ a.ms # b.ms

\* C's == on doubles.
FloatEQ(a, b) == ~FloatNE(a, b)

\* part_000:338-341.
mon_name ==
  << <<"J", "a", "n">>, <<"F", "e", "b">>, <<"M", "a", "r">>,
     <<"A", "p", "r">>, <<"M", "a", "y">>, <<"J", "u", "n">>,
     <<"J", "u", "l">>, <<"A", "u", "g">>, <<"S", "e", "p">>,
     <<"O", "c", "t">>, <<"N", "o", "v">>, <<"D", "e", "c">> >>

\* strncmp(a, b, 3) == 0 for a three-character a.
StrnEq3(a, b) == Take(b, 3) = a

\* part_000:343-352: the 1-based index of the first match, else -1.
d_getnumbyname(arr, arr_size, str) ==
  LET hits == {i \in 0..(arr_size - 1) : StrnEq3(arr[i + 1], str)}
  IN IF hits = {} THEN 0 - 1
     ELSE (CHOOSE i \in hits : \A j \in hits : i <= j) + 1

\* part_000:354-359: " %d<sep>%d<sep>%d%[^\0]".
date_parse(str, sep) ==
  sscanf(str, <<Ws, ConvD(0), Lit(sep), ConvD(0), Lit(sep), ConvD(0), Rest>>)

\* part_000:361.
NO_TZ == 2147483647

\* The template of the file DATEMSK names, "%m/%d/%Y %H:%M:%S": the
\* conversions with the widths and the ranges strptime gives them.
datemsk_template ==
  <<ConvD(2), Lit("/"), ConvD(2), Lit("/"), ConvD(4), Ws, ConvD(2), Lit(":"),
    ConvD(2), Lit(":"), ConvD(2), Ws>>

datemsk_ranges == <<<<1, 12>>, <<1, 31>>, <<0, 9999>>, <<0, 23>>, <<0, 59>>, <<0, 61>>>>

\* strptime(s, fmt, &tm) from input position p and directive k on:
\* [end |-> the position after the last character used, Fail when the input
\* does not match, vals |-> the numbers converted].
RECURSIVE strptime(_, _, _, _, _)
strptime(s, p, fmt, k, vals) ==
  IF k > Len(fmt) THEN [end |-> p, vals |-> vals]
  ELSE
    LET d == fmt[k]
        q == SkipSpace(s, p)
        b == DigitsEnd(s, q, FieldLimit(s, q, d.w))
        v == NumVal(s, q, b - 1)
        r == datemsk_ranges[Len(vals) + 1]
    IN CASE d.k = "ws" -> strptime(s, q, fmt, k + 1, vals)
         [] d.k = "lit" ->
              IF p <= Len(s) /\ s[p] = d.c
              THEN strptime(s, p + 1, fmt, k + 1, vals)
              ELSE [end |-> Fail, vals |-> vals]
         [] d.k = "d" ->
              IF b = q \/ v < r[1] \/ v > r[2]
              THEN [end |-> Fail, vals |-> vals]
              ELSE strptime(s, b, fmt, k + 1, Append(vals, v))

\* Days of the month m (0-based) of year y in the Gregorian calendar.
DaysInMonth(y, m) ==
  LET leap == (y % 4 = 0 /\ y % 100 # 0) \/ y % 400 = 0
  IN IF m = 1 THEN (IF leap THEN 29 ELSE 28)
     ELSE IF m \in {3, 5, 8, 10} THEN 30 ELSE 31

\* part_000:385: getdate() reads its templates from the file the environment
\* variable DATEMSK names and returns NULL when the variable is not set. With
\* it set, the struct tm of a string that matches the template to its end
\* and names a day of the calendar: tm_mon counts from 0 and tm_year from
\* 1900. The pointer returned is the record, null for NULL.
getdate(str) ==
  LET r == strptime(str, 1, datemsk_template, 1, <<>>)
  IN IF ~host.datemsk \/ r.end # Len(str) + 1 THEN [null |-> TRUE]
     ELSE IF r.vals[2] > DaysInMonth(r.vals[3], r.vals[1] - 1)
     THEN [null |-> TRUE]
     ELSE [null |-> FALSE,
           tm_year |-> r.vals[3] - 1900, tm_mon |-> r.vals[1] - 1,
           tm_mday |-> r.vals[2], tm_hour |-> r.vals[4],
           tm_min |-> r.vals[5], tm_sec |-> r.vals[6]]

\* part_000:374, " %d-%02d-%02dT%02d:%02d:%02d.%03dZ".
frmISOString ==
  <<Ws, ConvD(0), Lit("-"), ConvD(2), Lit("-"), ConvD(2), Lit("T"),
    ConvD(2), Lit(":"), ConvD(2), Lit(":"), ConvD(2), Lit("."), ConvD(3),
    Lit("Z")>>

\* part_000:401, " %03*s %03s %02d %d %02d:%02d:%02d %03s%d".
frmString ==
  <<Ws, SkipS(3), Ws, ConvS(3), Ws, ConvD(2), Ws, ConvD(0), Ws, ConvD(2),
    Lit(":"), ConvD(2), Lit(":"), ConvD(2), Ws, ConvS(3), ConvD(0)>>

GMT == <<"G", "M", "T">>

\* part_000:444-457, the zone: zz is what sscanf(rest, " %03s%d%[^\0]", gmt,
\* tz, buf) gave.
ParseZone(tp, tz0, zz) ==
  LET zt == <<"gmt", "tz", "buf">>
  IN [ok |-> IF zz.n <= 2 THEN 1 ELSE 0, tp |-> tp,
      tz |-> IF zz.n = 1 /\ StrnEq3(GMT, StoredVar("gmt", <<>>, zt, zz.vals))
             THEN 0 ELSE StoredVar("tz", tz0, zt, zz.vals)]

\* part_000:437-450, the seconds: ss is what sscanf(buf2, ":%d%[^\0]",
\* &tp->sec, buf1) gave, buf1 having been cleared.
ParseSeconds(tp, tz0, buf2, ss) ==
  ParseZone(Stored(tp, <<"sec", "buf1">>, ss.vals), tz0,
            sscanf(IF ss.n # 0
                   THEN StoredVar("buf1", <<>>, <<"sec", "buf1">>, ss.vals)
                   ELSE buf2,
                   <<Ws, ConvS(3), ConvD(0), Rest>>))

\* part_000:427-441, the time of day: hm is what sscanf(buf1, " %d:%d%[^\0]",
\* &tp->hour, &tp->min, buf2) gave.
ParseHourMin(tp, tz0, hm, buf2) ==
  IF hm.n < 2
  THEN [ok |-> IF Len(buf2) = 0 THEN 1 ELSE 0,
        tp |-> Stored(tp, <<"hour", "min", "buf2">>, hm.vals), tz |-> tz0]
  ELSE ParseSeconds(Stored(tp, <<"hour", "min", "buf2">>, hm.vals), tz0,
                    buf2, sscanf(buf2, <<Lit(":"), ConvD(0), Rest>>))

\* part_000:425-435, with the date in tp and what followed it in buf1.
ParseTime(tp, tz0, hm) ==
  ParseHourMin(tp, tz0, hm,
               StoredVar("buf2", <<>>, <<"hour", "min", "buf2">>, hm.vals))

\* part_000:419-423: the three date_parse calls of the || chain, each run
\* only if the one before returned less than 3.
ParseDate(tp0, tz0, p1, p2, p3) ==
  LET tpa == Stored(tp0, <<"month", "day", "year", "buf1">>, p1.vals)
      tpb == Stored(tpa, <<"day", "month", "year", "buf1">>, p2.vals)
      tpc == Stored(tpb, <<"year", "month", "day", "buf1">>, p3.vals)
      hmfmt == <<Ws, ConvD(0), Lit(":"), ConvD(0), Rest>>
  IN IF p1.n >= 3
     THEN ParseTime(tpa, tz0, sscanf(IF p1.n = 4 THEN p1.vals[4] ELSE <<>>,
                                     hmfmt))
     ELSE IF p2.n >= 3
     THEN ParseTime(tpb, tz0, sscanf(IF p2.n = 4 THEN p2.vals[4] ELSE <<>>,
                                     hmfmt))
     ELSE IF p3.n >= 3
     THEN ParseTime(tpc, tz0, sscanf(IF p3.n = 4 THEN p3.vals[4] ELSE <<>>,
                                     hmfmt))
     ELSE [ok |-> 0, tp |-> tpc, tz |-> tz0]

\* part_000:415-457, strategy #4, entered with the fields tp0 and the zone
\* tz0 the earlier attempts left behind.
d_parsetherest(str, tp0, tz0) ==
  ParseDate(tp0, tz0, date_parse(str, "/"), date_parse(str, "."),
            date_parse(str, "-"))

\* part_000:404-413, strategy #3: r3 is what sscanf(str, frmString, month,
\* &tp->day, &tp->year, &tp->hour, &tp->min, &tp->sec, gmt, tz) gave and num
\* what d_getnumbyname made of month.
ParseString(str, tp3, r3, gmt, tz3, num) ==
  IF r3.n = 3 \/ (r3.n >= 6 /\ r3.n <= 8)
  THEN (IF num # 0 - 1
        THEN [ok |-> 1, tp |-> [tp3 EXCEPT !.month = num],
              tz |-> IF r3.n = 7 /\ StrnEq3(GMT, gmt) THEN 0 ELSE tz3]
        ELSE d_parsetherest(str, [tp3 EXCEPT !.month = num], tz3))
  ELSE d_parsetherest(str, tp3, tz3)

\* part_000:398-403.
TryString(str, tp1, r3) ==
  LET st == <<"month_name", "day", "year", "hour", "min", "sec", "gmt", "tz">>
  IN ParseString(str, Stored(tp1, st, r3.vals), r3,
                 StoredVar("gmt", <<>>, st, r3.vals),
                 StoredVar("tz", NO_TZ, st, r3.vals),
                 d_getnumbyname(mon_name, 12,
                                StoredVar("month_name", <<>>, st, r3.vals)))

\* part_000:386-392, strategy #2: the fields of the struct tm stored in tp.
FromTm(tp, tm) ==
  [tp EXCEPT !.year = tm.tm_year + 1900, !.month = tm.tm_mon,
             !.day = tm.tm_mday, !.hour = tm.tm_hour, !.min = tm.tm_min,
             !.sec = tm.tm_sec]

\* part_000:377-396: r1 is what the sscanf of strategy #1 gave and tp what
\* it stored.
ParseISOString(str, r1, tp) ==
  IF r1.n = 7 THEN [ok |-> 1, tp |-> tp, tz |-> 0]
  ELSE IF ~getdate(str).null
  THEN [ok |-> 1, tp |-> FromTm(tp, getdate(str)), tz |-> NO_TZ]
  ELSE TryString(str, tp, sscanf(str, frmString))

\* part_000:372-376.
TryISOString(str, r1) ==
  ParseISOString(str, r1,
                 Stored(ZeroTP,
                        <<"year", "month", "day", "hour", "min", "sec",
                          "msec">>, r1.vals))

\* part_000:365-458: [ok |-> the value returned, tp, tz].
d_parsedatestr(str) == TryISOString(str, sscanf(str, frmISOString))

\* part_000:488-496, with the fields and the zone checked.
TimeOfParts(tp, tz, valid, g) ==
  LET off == IF tz = NO_TZ THEN (0 - d_gettimezone) * msPerMinute
             ELSE tz * msPerHour
  IN IF valid THEN TimeAdd(d_gmktime(tp, g), 0 - off) ELSE INVALID_TIME

\* A faulty variant of CheckParts: the seconds are not checked.
CheckParts_no_sec(tp, tz, g) ==
  TimeOfParts(tp, tz,
              /\ tp.day >= 1 /\ tp.day <= 31
              /\ tp.month >= 0 /\ tp.month <= 11
              /\ tp.hour >= 0 /\ tp.hour <= 23
              /\ tp.min >= 0 /\ tp.min <= 59
              /\ (Abs(tz) <= 12 \/ tz = NO_TZ), g)

\* part_000:475-486, with the month made 0-based and tz divided.
CheckParts(tp, tz, g) ==
  TimeOfParts(tp, tz,
              /\ tp.day >= 1 /\ tp.day <= 31
              /\ tp.month >= 0 /\ tp.month <= 11
              /\ tp.hour >= 0 /\ tp.hour <= 23
              /\ tp.min >= 0 /\ tp.min <= 59
              /\ tp.sec >= 0 /\ tp.sec <= 59
              /\ (Abs(tz) <= 12 \/ tz = NO_TZ), g)

\* part_000:471-494: r is what d_parsedatestr gave.
TimeOfParsed(r, g) ==
  IF r.ok = 0 THEN INVALID_TIME
  ELSE CheckParts([r.tp EXCEPT !.month = r.tp.month - 1],
                  IF r.tz # NO_TZ /\ r.tz > 12 THEN CDiv(r.tz, 100)
                  ELSE r.tz, g)

\* part_000:496.
TimeFromStringResult(result) ==
  [ret |-> IF FloatNE(result, INVALID_TIME) THEN 1 ELSE 0, time |-> result]

\* part_000:460-497: [ret |-> the value returned, time |-> *time].
d_timeFromString(str, buf_size, g) ==
  IF buf_size > 100 THEN [ret |-> 0, time |-> INVALID_TIME]
  ELSE TimeFromStringResult(TimeOfParsed(d_parsedatestr(str), g))

\* ---------------------------------------------------------------------------
\* Arguments and setters
\* ---------------------------------------------------------------------------

\* A val_t argument. A double is NaN, an infinity, or the number val + 1/2
\* (half) or val (no half) for an integer val kept like an instant.
Undefined == [t |-> "undefined"]

NumD(v) == [t |-> "double", cls |-> "num", val |-> Instant(0, v),
            half |-> FALSE]

HalfD(v) == [t |-> "double", cls |-> "num", val |-> Instant(0, v),
             half |-> TRUE]

BigD(day, ms) == [t |-> "double", cls |-> "num", val |-> Instant(day, ms),
                  half |-> FALSE]

NaND == [t |-> "double", cls |-> "nan"]

InfD == [t |-> "double", cls |-> "inf"]

BoolV(b) == [t |-> "boolean", b |-> b]

StrV(s) == [t |-> "string", s |-> s]

ObjV(prim) == [t |-> "object", prim |-> prim]

\* trunc() of the double val + 1/2: toward zero.
TruncHalf(val) == IF val.day >= 0 THEN val ELSE TimeAdd(val, 1)

\* strtoll(str, &endptr, 10): [val, end], end the number of characters used.
strtoll(str) ==
  LET q == SkipSpace(str, 1)
      signed == q <= Len(str) /\ str[q] \in {"+", "-"}
      a == IF signed THEN q + 1 ELSE q
      b == DigitsEnd(str, a, Len(str))
      v == NumVal(str, a, b - 1)
  IN IF b = a THEN [val |-> 0, end |-> 0]
     ELSE [val |-> IF str[q] = "-" THEN 0 - v ELSE v, end |-> b - 1]

\* part_000:593-619: [ret |-> the value returned, val |-> *ret].
RECURSIVE d_argtoint(_)
d_argtoint(obj) ==
  LET val ==
        CASE obj.t = "double" ->
               IF obj.cls # "num" THEN INVALID_TIME
               ELSE IF obj.half THEN TruncHalf(obj.val) ELSE obj.val
          [] obj.t = "boolean" -> Instant(0, IF obj.b THEN 1 ELSE 0)
          [] obj.t = "string" ->
               LET r == strtoll(obj.s)
               IN IF r.end # Len(obj.s) THEN INVALID_TIME
                  ELSE Instant(0, r.val)
          [] OTHER -> INVALID_TIME
  IN IF obj.t = "object" THEN d_argtoint(obj.prim)
     ELSE [ret |-> IF FloatNE(val, INVALID_TIME) THEN 1 ELSE 0, val |-> val]

\* (int) x for a double x that holds a small integer.
IntOf(x) == x.day * msPerDay + x.ms

\* enum detimepartsarr, part_000:635-636.
tpyear == 0
tpmonth == 1
tpdate == 2
tphours == 3
tpminutes == 4
tpseconds == 5
tpmsec == 6
tpmax == 7

\* tp_arr of part_000:645-649.
tp_arr == <<"year", "month", "day", "hour", "min", "sec", "msec">>

\* fbreaktime and fmaketime, called through a pointer; g is what an
\* out-of-bounds read of the callee finds.
CallBreak(f, t, g) == IF f = "d_gmtime" THEN d_gmtime(t, g)
                      ELSE d_localtime(t, g)

CallMake(f, tp, g) == IF f = "d_gmktime" THEN d_gmktime(tp, g)
                      ELSE d_lmktime(tp, g)

\* part_000:660: the fields of tp0 that a has a number for, replaced.
PatchTP(tp0, a) ==
  [f \in DOMAIN tp0 |->
     IF \E i \in 1..7 : tp_arr[i] = f /\ ~d_istimeinvalid(a[i])
     THEN IntOf(a[CHOOSE i \in 1..7 : tp_arr[i] = f])
     ELSE tp0[f]]

\* A faulty variant of d_changedparts: the current instant is not broken
\* down.
d_changedparts_no_break(current, a, breaktimefunc, g) == PatchTP(ZeroTP, a)

\* part_000:651-661, the tp handed to maketimefunc; a.args[i] is a[i + 1].
d_changedparts(current, a, breaktimefunc, g) ==
  PatchTP(IF breaktimefunc # "NULL" THEN CallBreak(breaktimefunc, current, g)
          ELSE ZeroTP, a)

\* part_000:638-664.
d_changepartoftime(current, a, breaktimefunc, maketimefunc, g, h) ==
  CallMake(maketimefunc, d_changedparts(current, a, breaktimefunc, g), h)

\* The for loop of part_000:677-684: [a, new_part] when it ends.
RECURSIVE ArgLoop(_, _, _, _, _)
ArgLoop(args, start_pos, i, a, new_part) ==
  IF ~(i < Len(args) /\ i + start_pos < tpmax)
  THEN [a |-> a, new_part |-> new_part]
  ELSE LET r == d_argtoint(args[i + 1])
       IN IF r.ret = 0 THEN [a |-> a, new_part |-> r.val]
          ELSE ArgLoop(args, start_pos, i + 1,
                       [a EXCEPT ![i + start_pos + 1] = r.val], r.val)

\* part_000:666-694.
d_time_number_from_tp(this, args, start_pos, breaktimefunc, makefilefunc, g, h) ==
  IF Len(args) >= 1 /\ ~this.nan
  THEN LET l == ArgLoop(args, start_pos, 0, [i \in 1..7 |-> INVALID_TIME],
                        INVALID_TIME)
       IN IF ~d_istimeinvalid(l.new_part)
          THEN d_changepartoftime(this, l.a, breaktimefunc, makefilefunc,
                                  g, h)
          ELSE INVALID_TIME
  ELSE INVALID_TIME

\* part_000:696-706: the number stored in the object and returned.
d_setTimePart(this, args, start_pos, breaktimefunc, makefilefunc, g, h) ==
  d_time_number_from_tp(this, args, start_pos, breaktimefunc, makefilefunc,
                        g, h)

\* part_000:839-850.
Date_setTime(args) ==
  IF Len(args) >= 1 THEN d_argtoint(args[1]).val ELSE INVALID_TIME


\* ---------------------------------------------------------------------------
\* A Date object and the calls made on it
\* ---------------------------------------------------------------------------

\* Bound on the calls that store a new instant in the object.
MaxSetCalls == 1

\* The hosts: BSD libc or glibc, UTC without summer time or one hour east of
\* it with summer time.
Hosts ==
  {[libc |-> l, timezone |-> z[1], dst |-> z[2], datemsk |-> FALSE] :
     l \in {"bsd", "glibc"}, z \in {<<0, FALSE>>, <<0 - 3600, TRUE>>}}

\* The same hosts with DATEMSK set in the environment of the interpreter.
DatemskHosts == {[h EXCEPT !.datemsk = TRUE] : h \in Hosts}

\* What an out-of-bounds read of a local array may find.
StackGarbage == {0, 7}

FieldYears == {1, 1967, 1968, 1969, 1970, 2016, 275000}

FieldMonths == {0, 1, 11}

FieldDays == {1, 29, 31}

FieldTimes == {<<0, 0, 0, 0>>, <<23, 59, 59, 999>>}

\* The calendar fields a Date is built from, all in range.
Fields ==
  {timeparts(y, m, d, hms[1], hms[2], hms[3], hms[4], 0) :
     y \in FieldYears, m \in FieldMonths, d \in FieldDays,
     hms \in FieldTimes}

ValidFields == {f \in Fields : f.day <= DaysInMonth(f.year, f.month)}

\* The object new Date(Date.UTC(y, m, d, h, mn, s, ms)) on some host.
DateInit ==
  /\ ASTInit
  /\ host \in Hosts
  /\ \E f \in ValidFields :
        /\ made = <<f>>
        /\ this_time = d_gmktime(f, 0)
  /\ out = [op |-> "new"]
  /\ calls = 0

\* Date.prototype.getUTCxxx / getxxx, part_000:816-835: NaN for an invalid
\* date, else the broken-down time the getters read their field from (and,
\* for the local getters, the local_time of part_000:286 it was made from).
GetTP(utc) ==
  /\ IF d_istimeinvalid(this_time)
     THEN out' = [op |-> "getNaN", utc |-> utc]
     ELSE \E g \in StackGarbage :
             out' = IF utc
                    THEN [op |-> "get", utc |-> utc,
                          tp |-> d_gmtime(this_time, g)]
                    ELSE [op |-> "get", utc |-> utc,
                          local |-> ecma_LocalTime(this_time),
                          tp |-> d_localtime(this_time, g)]
  /\ UNCHANGED <<host, this_time, made, calls, astvars>>

\* Date.prototype.toISOString, part_000:778-789: d_isobjvalidforstirng
\* (part_000:298-303) throws a TypeError for an invalid date.
ToISOString ==
  /\ IF d_istimeinvalid(this_time)
     THEN out' = [op |-> "TypeError"]
     ELSE \E g \in StackGarbage :
             out' = [op |-> "toISOString",
                     str |-> Date_toISOString(this_time, g)]
  /\ UNCHANGED <<host, this_time, made, calls, astvars>>

\* Date.parse of the string toISOString just returned, part_000:908-928.
ParseISO ==
  /\ out.op = "toISOString"
  /\ out' = [op |-> "parse", str |-> out.str,
             time |-> d_timeFromString(out.str, Len(out.str), 0).time]
  /\ UNCHANGED <<host, this_time, made, calls, astvars>>

\* The arguments the setters are called with.
ArgVals == {NumD(5), NaND, StrV(<<"x">>), Undefined}

ArgLists == {<<a>> : a \in ArgVals} \cup
            {<<a, b>> : a \in ArgVals, b \in ArgVals}

\* The tp d_time_number_from_tp has d_changepartoftime hand to maketimefunc,
\* part_000:686-690 and :663: <<tp>>, or <<>> when the instant is not rebuilt.
HandedTP(this, args, start_pos, breaktimefunc, g) ==
  IF Len(args) >= 1 /\ ~this.nan
  THEN LET l == ArgLoop(args, start_pos, 0, [i \in 1..7 |-> INVALID_TIME],
                        INVALID_TIME)
       IN IF ~d_istimeinvalid(l.new_part)
          THEN <<d_changedparts(this, l.a, breaktimefunc, g)>>
          ELSE <<>>
  ELSE <<>>

\* Date.prototype.setUTCxxx / setxxx, part_000:853-868.
SetTP(start_pos, utc, args) ==
  /\ calls < MaxSetCalls
  /\ \E g \in StackGarbage, h \in StackGarbage :
        LET brk == IF utc THEN "d_gmtime" ELSE "d_localtime"
            mk  == IF utc THEN "d_gmktime" ELSE "d_lmktime"
        IN /\ this_time' = d_setTimePart(this_time, args, start_pos, brk, mk,
                                         g, h)
           /\ out' = [op |-> "set", start_pos |-> start_pos, utc |-> utc,
                      args |-> args, prev |-> this_time,
                      handed |-> HandedTP(this_time, args, start_pos, brk, g)]
  /\ made' = <<>>
  /\ calls' = calls + 1
  /\ UNCHANGED <<host, astvars>>

\* The instants setTime is called with.
SetTimeArgs ==
  {<<BigD(d, ms)>> : d \in {0 - 720000, 0 - 1461, 0 - 731, 0 - 1, 0, 89, 299,
                             16860, 3000000},
                     ms \in {0, msPerDay - 1}}
  \cup {<<>>, <<NaND>>, <<HalfD(0 - 1)>>}

\* Date.prototype.setTime, part_000:839-850.
SetTime(args) ==
  /\ calls < MaxSetCalls
  /\ this_time' = Date_setTime(args)
  /\ made' = <<>>
  /\ out' = [op |-> "setTime", args |-> args]
  /\ calls' = calls + 1
  /\ UNCHANGED <<host, astvars>>

DateNext ==
  \/ \E utc \in BOOLEAN : GetTP(utc)
  \/ ToISOString
  \/ ParseISO
  \/ \E start_pos \in tpyear..tpmsec, utc \in BOOLEAN, args \in ArgLists :
        SetTP(start_pos, utc, args)
  \/ \E args \in SetTimeArgs : SetTime(args)

DateSpec == DateInit /\ [][DateNext]_vars


(***************************************************************************)
(* Claims about the Date module.                                           *)
(***************************************************************************)

\* DayFromYear as ECMA-262 15.9.1.3 writes it, with the floor of the exact
\* quotients.
FloorDayFromYear(y) ==
  365 * (y - 1970) + ((y - 1969) \div 4) - ((y - 1901) \div 100)
                   + ((y - 1601) \div 400)

\* The date and time-of-day fields of a broken-down time.
DateTimeFields(tp) ==
  <<tp.year, tp.month, tp.day, tp.hour, tp.min, tp.sec, tp.msec>>

\* C5: d_gmtime applied to the instant made from in-range fields y, m, d, h,
\* mn, s, ms gives back exactly those fields, for years before 1970 too.
C5_GmtimeInvertsMktime ==
  (out.op = "get" /\ out.utc /\ made # <<>>)
  => DateTimeFields(out.tp) = DateTimeFields(made[1])

\* C6: after a setXxx / setUTCXxx call one of whose arguments, at any
\* position, coerces to the invalid instant, the date holds the invalid
\* instant.
C6_InvalidArgInvalidatesDate ==
  (/\ out.op = "set"
   /\ \E i \in 1..Len(out.args) : d_argtoint(out.args[i]).val.nan)
  => this_time.nan

\* C7: parsing the ISO string written for a valid instant t gives t back.
C7_ISORoundTrip ==
  out.op = "parse" => out.time = this_time

\* C8: ecma_YearFromTime_s(t) is the year y with TimeFromYear(y) <= t <
\* TimeFromYear(y + 1), TimeFromYear being msPerDay times the floor-based
\* DayFromYear.
C8_YearFromTimeIsTheYear ==
  (out.op = "get" /\ out.utc)
  => /\ FloorDayFromYear(out.tp.year) <= this_time.day
     /\ this_time.day < FloorDayFromYear(out.tp.year + 1)

\* C9: ecma_DayFromYear(y) is 365 (y - 1970) + floor((y - 1969) / 4)
\* - floor((y - 1901) / 100) + floor((y - 1601) / 400) with the mathematical
\* floor, for the years before 1970 too.
C9_DayFromYearIsFloorFormula ==
  made # <<>>
  => ecma_DayFromYear(made[1].year) = FloorDayFromYear(made[1].year)

\* C10: for every valid instant d_gmtime gives month 0..11, day 1..31, hour
\* 0..23, min 0..59, sec 0..59, msec 0..999 and dayofweek = (Day(t) + 4) mod
\* 7 in 0..6.
C10_GmtimeFieldsInRange ==
  (out.op = "get" /\ out.utc)
  => /\ out.tp.month \in 0..11
     /\ out.tp.day \in 1..31
     /\ out.tp.hour \in 0..23
     /\ out.tp.min \in 0..59
     /\ out.tp.sec \in 0..59
     /\ out.tp.msec \in 0..999
     /\ out.tp.dayofweek \in 0..6
     /\ out.tp.dayofweek = (ecma_Day(this_time) + 4) % 7


\* ---------------------------------------------------------------------------
\* The Date constructor and the functions called on it
\* ---------------------------------------------------------------------------

\* Calls of the constructor and of the static functions in a run.
MaxStaticCalls == 1

\* No Date object has been constructed yet.
NoDate ==
  /\ ASTInit
  /\ host \in Hosts \cup DatemskHosts
  /\ this_time = INVALID_TIME
  /\ made = <<>>
  /\ out = [op |-> "none"]
  /\ calls = 0

\* The number behind the this_obj of Date.UTC, the Date function object: not
\* NaN (part_000:671), and never read, the break-down function being NULL.
DateFunction == Instant(0, 0)

\* part_000:930-940.
Date_UTC(args, g, h) ==
  d_time_number_from_tp(DateFunction, args, tpyear, "NULL", "d_gmktime", g, h)

UTCYears == {1971, 2016}

UTCMonths == {0 - 13, 0 - 12, 0 - 1, 0, 1, 11, 12, 25}

UTCDates == {1, 29}

\* The arguments Date.UTC is called with: year, month, date.
UTCArgs ==
  {<<NumD(y), NumD(m), NumD(d)>> :
     y \in UTCYears, m \in UTCMonths, d \in UTCDates}

\* Date.UTC(year, month, date), part_000:930-940.
UTC(args) ==
  /\ calls < MaxStaticCalls
  /\ calls' = calls + 1
  /\ \E g \in StackGarbage, h \in StackGarbage :
        out' = [op |-> "UTC", args |-> args, time |-> Date_UTC(args, g, h)]
  /\ UNCHANGED <<host, this_time, made, astvars>>

\* Date.parse(arg0), part_000:908-928: the number returned.
Date_parse(args, g) ==
  IF Len(args) >= 1 /\ args[1].t = "string"
  THEN d_timeFromString(args[1].s, Len(args[1].s), g).time
  ELSE INVALID_TIME

\* Date strings. Fields of the strings handed to Date.parse, values out of
\* range included.
StrYears == {1970, 2016}
StrMonths == {0, 1, 12, 13}
StrDays == {0, 1, 31, 32}
StrTimes == {<<0, 0, 0>>, <<23, 59, 59>>, <<24, 0, 0>>, <<0, 60, 0>>,
             <<0, 0, 60>>, <<0 - 1, 0, 0>>}

\* hhmm offsets written after GMT.
ZoneOffsets == {0, 200, 530, 1200, 1300}

Sp == <<" ">>

\* "hh:mm:ss".
ClockStr(hms) ==
  FmtD(hms[1], 2) \o <<":">> \o FmtD(hms[2], 2) \o <<":">> \o FmtD(hms[3], 2)

\* "YYYY-MM-DDThh:mm:ss.000Z", what toISOString writes.
ISOString(y, m, d, hms) ==
  FmtD(y, 4) \o <<"-">> \o FmtD(m, 2) \o <<"-">> \o FmtD(d, 2) \o <<"T">>
    \o ClockStr(hms) \o <<".", "0", "0", "0", "Z">>

\* " GMT+hhmm" or " GMT-hhmm".
ZoneStr(sign, hhmm) == Sp \o GMT \o <<sign>> \o FmtD(hhmm, 4)

\* "Thu Mmm DD YYYY hh:mm:ss" and a zone, what toString writes (m is 1-based).
RFCString(y, m, d, hms, zone) ==
  <<"T", "h", "u">> \o Sp \o mon_name[m] \o Sp \o FmtD(d, 2) \o Sp
    \o FmtD(y, 4) \o Sp \o ClockStr(hms) \o zone

\* "MM/DD/YYYY", "DD.MM.YYYY" or "YYYY-MM-DD", then " hh:mm:ss" and a zone.
SepString(sep, y, m, d, hms, zone) ==
  (IF sep = "/" THEN FmtD(m, 2) \o <<sep>> \o FmtD(d, 2) \o <<sep>> \o FmtD(y, 4)
   ELSE IF sep = "." THEN FmtD(d, 2) \o <<sep>> \o FmtD(m, 2) \o <<sep>> \o FmtD(y, 4)
   ELSE FmtD(y, 4) \o <<sep>> \o FmtD(m, 2) \o <<sep>> \o FmtD(d, 2))
    \o Sp \o ClockStr(hms) \o zone

Zones ==
  {<<>>, Sp \o GMT} \cup
  {ZoneStr(sign, z) : sign \in {"+", "-"}, z \in ZoneOffsets}

DateStrings ==
  {ISOString(y, m, d, hms) :
     y \in StrYears, m \in StrMonths, d \in StrDays, hms \in StrTimes}
  \cup {RFCString(y, m, d, hms, zone) :
          y \in StrYears, m \in {1, 12}, d \in {1, 32},
          hms \in {<<0, 0, 0>>, <<23, 59, 59>>, <<24, 0, 0>>}, zone \in Zones}
  \cup {SepString(sep, 2016, m, d, hms, zone) :
          sep \in {"/", ".", "-"}, m \in {1, 12, 13}, d \in {1, 31},
          hms \in {<<0, 0, 0>>, <<23, 59, 59>>, <<0, 60, 0>>},
          zone \in {<<>>, ZoneStr("+", 200), ZoneStr("-", 1300)}}
  \cup {<<>>, <<"x">>, <<"1", "/", "2">>,
        Rep(77, " ") \o ISOString(2016, 1, 1, <<0, 0, 0>>),
        Rep(76, " ") \o ISOString(2016, 1, 1, <<0, 0, 0>>)}

\* Date.parse(str), part_000:908-928.
Parse(str) ==
  /\ calls < MaxStaticCalls
  /\ calls' = calls + 1
  /\ \E g \in StackGarbage :
        out' = [op |-> "parse", str |-> str,
                time |-> Date_parse(<<StrV(str)>>, g)]
  /\ UNCHANGED <<host, this_time, made, astvars>>

\* The for loop of part_000:735-740: [a, i] when it ends.
RECURSIVE CtorLoop(_, _, _)
CtorLoop(args, i, a) ==
  IF ~(i < Len(args)) THEN [a |-> a, i |-> i]
  ELSE LET r == d_argtoint(args[i + 1])
       IN IF r.ret = 0 THEN [a |-> [a EXCEPT ![i + 1] = r.val], i |-> i]
          ELSE CtorLoop(args, i + 1, [a EXCEPT ![i + 1] = r.val])

\* part_000:742-755, the date and year defaults: a comparison with NaN is
\* false.
CtorDefaults(a) ==
  LET dt == IF ~a[tpdate + 1].nan /\ a[tpdate + 1] = Instant(0, 0)
            THEN Instant(0, 1) ELSE a[tpdate + 1]
      y  == a[tpyear + 1]
      yr == IF ~y.nan /\ TimeLE(Instant(0, 0), y) /\ TimeLE(y, Instant(0, 99))
            THEN TimeAdd(y, 1900) ELSE y
  IN [a EXCEPT ![tpdate + 1] = dt, ![tpyear + 1] = yr]

\* Date_ctor called for construction (this_obj an object other than the
\* global one), part_000:711-761: the number stored in the new object. now is
\* what d_gettime reads from the host clock; args holds at most the seven
\* values a.args has room for.
Date_ctor(args, now, g, h) ==
  IF Len(args) <= 0 THEN now
  ELSE IF Len(args) = 1
  THEN IF args[1].t = "string"
       THEN d_timeFromString(args[1].s, Len(args[1].s), g).time
       ELSE d_argtoint(args[1]).val
  ELSE LET l == CtorLoop(args, 0, [i \in 1..7 |-> Instant(0, 0)])
       IN IF l.i >= Len(args)
          THEN ecma_UTC(d_changepartoftime(Instant(0, 0), CtorDefaults(l.a),
                                           "NULL", "d_gmktime", g, h))
          ELSE Instant(0, 0)

\* Arguments of new Date(...).
CtorYears == {0, 99, 100, 1970, 2016}
CtorMonths == {0, 11}
CtorDays == {0, 1, 31}
CtorTimes == {<<>>, <<0>>, <<23, 59>>, <<23, 59, 59, 999>>}

CtorArgs ==
  {<<NumD(y), NumD(m)>> : y \in CtorYears, m \in CtorMonths}
  \cup {<<NumD(y), NumD(m), NumD(d)>> \o [i \in DOMAIN t |-> NumD(t[i])] :
          y \in CtorYears, m \in CtorMonths, d \in CtorDays, t \in CtorTimes}
  \cup {<<NumD(2016), NaND>>, <<NaND, NumD(0), NumD(1)>>,
        <<NumD(2016), NumD(0), Undefined, NumD(5)>>,
        <<>>, <<NumD(86400000)>>, <<NaND>>,
        <<StrV(ISOString(2016, 1, 31, <<23, 59, 59>>))>>, <<StrV(<<"x">>)>>}

\* new Date(args), part_000:711-761.
Construct(args) ==
  /\ calls < MaxStaticCalls
  /\ calls' = calls + 1
  /\ \E g \in StackGarbage, h \in StackGarbage, now \in {Instant(16860, 0)} :
        this_time' = Date_ctor(args, now, g, h)
  /\ out' = [op |-> "new", args |-> args]
  /\ UNCHANGED <<host, made, astvars>>

CtorNext ==
  \/ \E args \in UTCArgs : UTC(args)
  \/ \E str \in DateStrings : Parse(str)
  \/ \E args \in CtorArgs : Construct(args)

CtorSpec == NoDate /\ [][CtorNext]_vars

\* C11: for every integer month, negative months and months >= 12 included,
\* ecma_MakeDay(y, month, date) is the day number of year y + floor(month /
\* 12), month (month mod 12) in 0..11 and the date: the first day of that
\* year plus firstDays[month mod 12] plus date - 1.
C11_MakeDayNormalisesMonth ==
  out.op = "UTC"
  => LET y == IntOf(out.args[1].val)
         m == IntOf(out.args[2].val)
         d == IntOf(out.args[3].val)
         y2 == y + (m \div 12)
         m2 == m % 12
     IN out.time = Instant(ecma_DayFromYear(y2)
                           + ecma_getfirstdays(ecma_DaysInYear(y2) = 366)[m2 + 1]
                           + d - 1, 0)


InsertTagNames == {"NOP", "SEQ", "IF", "FUNC"}

InsertTags == {TagOf(n) : n \in InsertTagNames}

\* Inlined strings under the inserted node: the empty one and the shortest
\* that puts the buffer end 64k past a payload start.
InsertInlineLens == {0, 65536}

\* Offsets a caller inserts at: where a node starts, and the buffer end.
InsertPoints ==
  {open[i].start - 1 : i \in 1..Len(open)} \cup {n.at : n \in closed}
    \cup {Len(mbuf)}

\* Bytes the insertion of a node of `tag` adds.
InsertedSize(tag) == 1 + SkipSize * Def(tag).num_skips

\* Where the nodes of the buffer are after sz bytes were inserted at `at`:
\* an offset from `at` on is sz further.
MovedOpen(at, sz) ==
  [i \in DOMAIN open |->
     IF open[i].start - 1 >= at THEN [open[i] EXCEPT !.start = @ + sz]
     ELSE open[i]]

MovedClosed(at, sz) ==
  {[at |-> IF n.at >= at THEN n.at + sz ELSE n.at,
    end |-> IF n.end > at THEN n.end + sz ELSE n.end] : n \in closed}

\* ast_insert_node(a, at, tag), ast.c:409-424, in front of a node of the
\* buffer or at its end; the nodes the buffer held keep their records, moved
\* with their bytes, and the node inserted gets one. lastop keeps the buffer
\* and the payload starts of before the insertion.
InsertNode(at, tag) ==
  /\ ~asserted
  /\ patches < MaxPatches
  /\ mbuf' = ast_insert_node(mbuf, at, tag)
  /\ lastop' = [kind |-> "insert", at |-> at, tag |-> tag, ret |-> at + 1,
                oldlen |-> Len(mbuf), old |-> mbuf, starts |-> PayloadStarts]
  /\ patches' = patches + 1
  /\ open' = MovedOpen(at, InsertedSize(tag))
  /\ closed' = MovedClosed(at, InsertedSize(tag))
                 \cup {[at |-> at, end |-> at + InsertedSize(tag)]}
  /\ UNCHANGED <<asserted, datevars>>

\* The writer up to one insertion.
InsertNext ==
  \/ \E tag \in WriterTags : patches = 0 /\ AddNode(MaxPatchNodes, tag)
  \/ \E tag \in WriterTags, len \in InsertInlineLens :
        patches = 0 /\ AddInlinedNode(MaxPatchNodes, tag, len)
  \/ patches = 0 /\ SetSkip
  \/ \E at \in InsertPoints, tag \in InsertTags : InsertNode(at, tag)

InsertSpec == Init /\ [][InsertNext]_vars

\* C13, first half: after ast_insert_node(at, tag) for a tag with skips, the
\* END skip read at the returned payload start is the buffer length after
\* the insertion.
C13_EndSkipReadsLength ==
  (lastop.kind = "insert" /\ Def(lastop.tag).num_skips > 0)
  => ast_get_skip(mbuf, lastop.ret, AST_END_SKIP) = Len(mbuf)

\* C13: after ast_insert_node(at, tag) for a tag with skips, the END skip of
\* the inserted node reads as the buffer length after the insertion, and a
\* node inserted at the old buffer length is complete with an empty body:
\* ast_skip_tree from `at` ends at the buffer length.
C13_InsertedNodeIsWellFormed ==
  (lastop.kind = "insert" /\ Def(lastop.tag).num_skips > 0)
  => /\ ast_get_skip(mbuf, lastop.ret, AST_END_SKIP) = Len(mbuf)
     /\ lastop.at = lastop.oldlen => ast_skip_tree(mbuf, lastop.at) = Len(mbuf)


\* ---------------------------------------------------------------------------
\* The reader's ast_move_to_children on nodes of every tag
\* ---------------------------------------------------------------------------

AllTags == 0..(AST_MAX_TAG - 1)

\* ast_move_to_children(a, &pos) with the cursor just past the tag of a node
\* of the buffer.
MoveToChildren(start) ==
  /\ ~asserted
  /\ patches < MaxPatches
  /\ start \in PayloadStarts
  /\ lastop' = [kind |-> "move", start |-> start,
                pos |-> ast_move_to_children(mbuf, start)]
  /\ patches' = patches + 1
  /\ UNCHANGED <<mbuf, open, closed, asserted, datevars>>

\* Nodes of any tag appended, then one cursor moved to the children.
MoveNext ==
  \/ \E tag \in AllTags : patches = 0 /\ AddNode(MaxPatchNodes, tag)
  \/ \E tag \in AllTags, len \in InlineLens :
        patches = 0 /\ AddInlinedNode(MaxPatchNodes, tag, len)
  \/ \E start \in PayloadStarts : MoveToChildren(start)

MoveSpec == Init /\ [][MoveNext]_vars

\* Offsets where a node of the buffer starts, and the buffer end.
NodeStarts ==
  {open[i].start - 1 : i \in 1..Len(open)} \cup {n.at : n \in closed}
    \cup {Len(mbuf)}

\* C14: ast_move_to_children with the cursor just past a tag leaves it at
\* payload_start + 2*num_skips + (varint width + L for a tag with an inline
\* payload), with the varint read where the documented layout has it, after
\* the skip slots; that offset is where the first child starts, or the buffer
\* end when no child was written.
C14_MoveToChildrenOffset ==
  lastop.kind = "move"
  => LET def   == Def(mbuf[lastop.start])
         slots == lastop.start + SkipSize * def.num_skips
         vi    == decode_varint(mbuf, slots)
     IN /\ lastop.pos = slots + (IF def.has_inlined = 1 THEN vi[2] + vi[1]
                                 ELSE 0)
        /\ lastop.pos \in NodeStarts
        /\ lastop.pos > lastop.start - 1

\* The cursor was moved over a two-byte varint and 128 inlined bytes to the
\* child of a VAR_DECL node.
C14_Witness ==
  /\ lastop.kind = "move"
  /\ mbuf[lastop.start] = TagOf("VAR_DECL")
  /\ lastop.pos = lastop.start + 2 + 128
  /\ lastop.pos < Len(mbuf)


\* C15: after an ast_set_skip(p, which) the writer performed,
\* ast_get_skip(p, which) is the buffer length at the time of the call, no
\* less than the position of the slot and no more than the buffer length now;
\* the two bytes stored are a value below 65536.
C15_SetSkipReadsBack ==
  lastop.kind = "set"
  => LET slot == lastop.start + SkipSize * lastop.which
         v    == mbuf[slot + 1] * 256 + mbuf[slot + 2]
     IN /\ ast_get_skip(mbuf, lastop.start, lastop.which) = lastop.where
        /\ ast_get_skip(mbuf, lastop.start, lastop.which) >= slot
        /\ ast_get_skip(mbuf, lastop.start, lastop.which) <= Len(mbuf)
        /\ 0 <= v /\ v < 65536


\* The UTC instant of the fields y, m (1-based), d, hms.
InstantOfFields(y, m, d, hms) ==
  Instant(ecma_DayFromYear(y)
            + ecma_getfirstdays(ecma_DaysInYear(y) = 366)[m] + d - 1,
          hms[1] * msPerHour + hms[2] * msPerMinute + hms[3] * msPerSecond)

\* C16: a date string with the zone written GMT+HHMM or GMT-HHMM, HH <= 12,
\* is accepted for both signs, and the instant is the UTC instant of the
\* fields minus HH hours for GMT+, plus HH hours for GMT-.
C16_SignedZoneAccepted ==
  out.op = "parse"
  => \A y \in StrYears, m \in {1, 12}, hms \in {<<0, 0, 0>>, <<23, 59, 59>>},
        sign \in {"+", "-"}, z \in ZoneOffsets :
        (z \div 100 <= 12
         /\ out.str = RFCString(y, m, 1, hms, ZoneStr(sign, z)))
        => out.time = TimeAdd(InstantOfFields(y, m, 1, hms),
                              (IF sign = "+" THEN 0 - 1 ELSE 1)
                                * (z \div 100) * msPerHour)

\* C16 on a libc whose sscanf takes the format of part_000:401, for GMT+HHMM
\* alone.
C16_PositiveZoneAccepted ==
  (out.op = "parse" /\ host.libc = "bsd")
  => \A y \in StrYears, m \in {1, 12}, hms \in {<<0, 0, 0>>, <<23, 59, 59>>},
        z \in ZoneOffsets :
        (z \div 100 <= 12 /\ out.str = RFCString(y, m, 1, hms, ZoneStr("+", z)))
        => out.time = TimeAdd(InstantOfFields(y, m, 1, hms),
                              0 - (z \div 100) * msPerHour)


\* day in [1,31], month (already 0-based) in [0,11], hour in [0,23], min and
\* sec in [0,59], and the zone absent or, divided by 100 if above 12, within
\* 12 hours of UTC.
FieldsInRange(tp, month, tz) ==
  /\ tp.day \in 1..31
  /\ month \in 0..11
  /\ tp.hour \in 0..23
  /\ tp.min \in 0..59
  /\ tp.sec \in 0..59
  /\ \/ tz = NO_TZ
     \/ (IF tz > 12 THEN tz \div 100 ELSE tz) \in (0 - 12)..12

\* C17: d_timeFromString gives the invalid instant when the input is longer
\* than 100 bytes, when d_parsedatestr fails, and when a parsed field or the
\* zone is out of range; a valid instant is given only if all checks pass.
C17_ValidOnlyIfFieldsInRange ==
  out.op = "parse"
  => LET r == d_parsedatestr(out.str)
     IN (\/ Len(out.str) > 100
         \/ r.ok = 0
         \/ ~FieldsInRange(r.tp, r.tp.month - 1, r.tz))
        => out.time = INVALID_TIME

\* A string of 100 bytes or less was parsed with 60 seconds and gave the
\* invalid instant.
C17_Witness ==
  /\ out.op = "parse"
  /\ Len(out.str) <= 100
  /\ d_parsedatestr(out.str).ok = 1
  /\ d_parsedatestr(out.str).tp.sec = 60
  /\ FieldsInRange([d_parsedatestr(out.str).tp EXCEPT !.sec = 0],
                   d_parsedatestr(out.str).tp.month - 1,
                   d_parsedatestr(out.str).tz)
  /\ out.time = INVALID_TIME


\* The i-th argument (from 1) of the constructor call as an integer, dflt if
\* it is missing.
CtorArg(i, dflt) ==
  IF Len(out.args) >= i THEN IntOf(out.args[i].val) ELSE dflt

\* The constructor was called with two to seven numbers.
CtorFieldsCall ==
  /\ out.op = "new"
  /\ Len(out.args) >= 2
  /\ \A i \in DOMAIN out.args : out.args[i].t = "double" /\ out.args[i].cls = "num"

\* UTC(MakeDate(MakeDay(yr, month, dt), MakeTime(hour, min, sec, ms))) for the
\* arguments of the call, yr being 1900 + y for 0 <= y <= 99.
CtorInstant(dt) ==
  LET y == CtorArg(1, 0)
      yr == IF 0 <= y /\ y <= 99 THEN 1900 + y ELSE y
  IN ecma_UTC(ecma_MakeDate(
       ecma_MakeDay(yr, CtorArg(2, 0), dt, 0),
       ecma_MakeTime(CtorArg(4, 0), CtorArg(5, 0), CtorArg(6, 0),
                     CtorArg(7, 0))))

\* C18: new Date(y, month, ...) with valid arguments stores UTC(MakeDate(
\* MakeDay(yr, month, dt), MakeTime(hour, min, sec, ms))), dt being the day
\* argument whatever its value, 0 included, and 1 only if it is missing.
C18_CtorBuildsFromFields ==
  CtorFieldsCall => this_time = CtorInstant(CtorArg(3, 1))

\* C18 for the calls whose day argument is missing or not 0.
C18_CtorBuildsFromNonzeroDay ==
  (CtorFieldsCall /\ CtorArg(3, 1) # 0)
  => this_time = CtorInstant(CtorArg(3, 1))


\* The setter call had only numbers as arguments, on a valid instant.
ValidSetCall ==
  /\ out.op = "set"
  /\ ~out.prev.nan
  /\ Len(out.args) >= 1
  /\ \A i \in DOMAIN out.args : out.args[i].t = "double" /\ out.args[i].cls = "num"

\* C19: a setter with start position k called with n valid arguments on a
\* valid instant hands to the rebuild a broken-down time whose fields
\* k..k+n-1 are the arguments and whose other fields are those of the
\* break-down of the current instant.
C19_SetterPatchesOnlySuppliedFields ==
  ValidSetCall
  => /\ Len(out.handed) = 1
     /\ \E g \in StackGarbage :
          LET cur == CallBreak(IF out.utc THEN "d_gmtime" ELSE "d_localtime",
                               out.prev, g)
              k == out.start_pos
              n == Len(out.args)
          IN /\ \A j \in 0..6 :
                  out.handed[1][tp_arr[j + 1]] =
                    IF k <= j /\ j < k + n
                    THEN IntOf(out.args[j - k + 1].val)
                    ELSE cur[tp_arr[j + 1]]
             /\ out.handed[1].dayofweek = cur.dayofweek

\* setUTCMinutes(5, 5) on a valid instant that is not at minute 5: minutes
\* and seconds are the arguments, the hour is the one of the instant.
C19_Witness ==
  /\ ValidSetCall
  /\ out.utc
  /\ out.start_pos = tpminutes
  /\ Len(out.args) = 2
  /\ Len(out.handed) = 1
  /\ out.handed[1].min = 5 /\ out.handed[1].sec = 5
  /\ out.handed[1].hour = 23
  /\ out.handed[1].msec = 999


\* ---------------------------------------------------------------------------
\* Locale-sensitive formatting
\* ---------------------------------------------------------------------------

\* Locale names setlocale accepts on the host.
LocaleNames == {"C", "en_US", "de_DE"}

\* What the uninitialised prev_locale.locale of part_000:535 may hold as a C
\* string: nothing, the name of a locale, or bytes that name none.
LocaleGarbage == {"", "C", "de_DE", "?"}

\* A host with its locale state: lc_time is the LC_TIME locale in effect,
\* lc_name the string setlocale(LC_TIME, 0) points to, env the locale the
\* environment names, lc_written whether anything but libc stored into that
\* string.
LocaleHosts ==
  {[libc |-> h.libc, timezone |-> h.timezone, dst |-> h.dst, lc_time |-> l,
    lc_name |-> l, env |-> e, lc_written |-> FALSE] :
     h \in Hosts, l \in LocaleNames, e \in LocaleNames}

\* setlocale(LC_TIME, name): "" selects the environment's locale, a name the
\* host has none for changes nothing.
setlocale(h, name) ==
  IF name = "" THEN [h EXCEPT !.lc_time = h.env, !.lc_name = h.env]
  ELSE IF name \in LocaleNames THEN [h EXCEPT !.lc_time = name, !.lc_name = name]
  ELSE h

\* d_getcurrentlocale, part_000:522-524: strcpy(setlocale(LC_TIME, 0),
\* loc->locale) copies loc->locale, here the bytes found on the stack, into
\* the string libc reports; loc->locale stays as it was.
d_getcurrentlocale(h, loc) ==
  [h EXCEPT !.lc_name = loc, !.lc_written = TRUE]

\* d_setlocale, part_000:526-528; loc = <<>> is the null pointer.
d_setlocale(h, loc) == setlocale(h, IF loc = <<>> THEN "" ELSE loc[1])

\* time / 1000 as a time_t.
Seconds(t) == t.day * 86400 + CDiv(t.ms, 1000)

\* d_tolocalestr, part_000:530-553, for a valid date: [host, str], the host
\* after the call and what strftime was asked to write, under which locale.
d_tolocalestr(h, t, frm, loc) ==
  LET h1 == d_setlocale(d_getcurrentlocale(h, loc), <<>>)
  IN [host |-> d_setlocale(h1, <<loc>>),
      str |-> [frm |-> frm, tsecs |-> Seconds(t), locale |-> h1.lc_time]]

\* strftime formats of part_000:809-811.
LocaleFormats == {"%c", "%x", "%X"}

\* A Date object on a host with a locale.
LocaleInit ==
  /\ ASTInit
  /\ host \in LocaleHosts
  /\ this_time \in {Instant(0, 0), Instant(16860, 1999), INVALID_TIME}
  /\ made = <<>>
  /\ out = [op |-> "none"]
  /\ calls = 0

\* Date.prototype.toLocaleString, toLocaleDateString, toLocaleTimeString,
\* part_000:804-811: d_isobjvalidforstirng throws for an invalid date before
\* the locale is touched. The strcpy into libc's string either goes through
\* or, the string being in read-only storage, stops the program.
ToLocaleString(frm) ==
  /\ calls < MaxSetCalls
  /\ calls' = calls + 1
  /\ IF d_istimeinvalid(this_time)
     THEN out' = [op |-> "TypeError"] /\ host' = host
     ELSE \E loc \in LocaleGarbage, fault \in BOOLEAN :
             LET r == d_tolocalestr(host, this_time, frm, loc)
             IN IF fault
                THEN out' = [op |-> "SIGSEGV"] /\ host' = host
                ELSE /\ host' = r.host
                     /\ out' = [op |-> "toLocaleString", str |-> r.str,
                                before |-> host.lc_time]
  /\ UNCHANGED <<this_time, made, astvars>>

LocaleNext ==
  \/ \E frm \in LocaleFormats : ToLocaleString(frm)

LocaleSpec == LocaleInit /\ [][LocaleNext]_vars

\* C20: after d_tolocalestr the process-wide LC_TIME locale is the one in
\* effect before the call, and the string setlocale reported as current was
\* never written to.
C20_LocaleRestored ==
  out.op = "toLocaleString"
  => host.lc_time = out.before /\ ~host.lc_written


\* s[a..b] are decimal digits.
AllDigits(s, a, b) == b <= Len(s) /\ \A i \in a..b : IsDigit(s[i])

\* C21, the year field: four digits and "-" for a year in [0, 9999], else
\* one sign character, "+" above 9999 and "-" below 0, then exactly six
\* digits and "-".
C21_YearFieldFormat ==
  out.op = "toISOString"
  => LET y == d_gmtime(this_time, 0).year
         s == out.str
     IN IF y \in 0..9999
        THEN AllDigits(s, 1, 4) /\ s[5] = "-"
        ELSE /\ s[1] = (IF y > 9999 THEN "+" ELSE "-")
             /\ AllDigits(s, 2, 7)
             /\ s[8] = "-"

\* C21 for the years from 0 on.
C21_YearFieldFormatFromYear0 ==
  (out.op = "toISOString" /\ d_gmtime(this_time, 0).year >= 0)
  => LET y == d_gmtime(this_time, 0).year
         s == out.str
     IN IF y \in 0..9999
        THEN AllDigits(s, 1, 4) /\ s[5] = "-"
        ELSE s[1] = "+" /\ AllDigits(s, 2, 7) /\ s[8] = "-"


\* C22: d_argtoint and d_timeFromString return nonzero exactly when the
\* instant they store is valid, so the constructor's argument loop stops at
\* the first argument that does not coerce to a number.
C22_ReturnTellsValidity ==
  /\ (out.op = "new" /\ Len(out.args) >= 2)
     => /\ \A i \in DOMAIN out.args :
             (d_argtoint(out.args[i]).ret # 0)
               <=> ~d_istimeinvalid(d_argtoint(out.args[i]).val)
        /\ LET l == CtorLoop(out.args, 0, [i \in 1..7 |-> Instant(0, 0)])
           IN \A i \in DOMAIN out.args :
                d_istimeinvalid(d_argtoint(out.args[i]).val) => l.i < i
  /\ out.op = "parse"
     => (d_timeFromString(out.str, Len(out.str), 0).ret # 0)
          <=> ~d_istimeinvalid(d_timeFromString(out.str, Len(out.str), 0).time)

\* C22 for the calls that store a valid instant: the value returned is
\* nonzero.
C22_ValidReturnsNonzero ==
  /\ (out.op = "new" /\ Len(out.args) >= 2)
     => \A i \in DOMAIN out.args :
          ~d_istimeinvalid(d_argtoint(out.args[i]).val)
            => d_argtoint(out.args[i]).ret # 0
  /\ (out.op = "parse"
      /\ ~d_istimeinvalid(d_timeFromString(out.str, Len(out.str), 0).time))
     => d_timeFromString(out.str, Len(out.str), 0).ret # 0


\* Payload starts, before the insertion, of the nodes that started before
\* offset at.
PayloadStartsBefore(at) == {p \in lastop.starts : p - 1 < at}

\* C23: ast_insert_node(at, tag) leaves the bytes before `at` as they were,
\* moves every byte from `at` on by 1 + 2*num_skips(tag), and writes, in the
\* bytes it adds, the tag and the END skip only; so every skip of a node that
\* starts before `at` decodes to the offset it had, and a node that started
\* at or after `at` is found 1 + 2*num_skips(tag) further on.
C23_InsertShiftsTail ==
  lastop.kind = "insert"
  => LET at == lastop.at
         sz == InsertedSize(lastop.tag)
         old == lastop.old
     IN /\ Len(mbuf) = Len(old) + sz
        /\ SubSeq(mbuf, 1, at) = SubSeq(old, 1, at)
        /\ SubSeq(mbuf, at + sz + 1, Len(mbuf)) = SubSeq(old, at + 1, Len(old))
        /\ mbuf[at + 1] = lastop.tag
        /\ \A i \in (at + 2 + SkipSize)..(at + sz) : mbuf[i] = 0
        /\ \A p \in PayloadStartsBefore(at) :
             \A which \in 0..(Def(old[p]).num_skips - 1) :
               ast_get_skip(mbuf, p, which) = ast_get_skip(old, p, which)
        /\ \A p \in lastop.starts \ PayloadStartsBefore(at) :
             mbuf[p + sz] = old[p]

\* A node with skips was inserted in front of the child of an IF node whose
\* end_true skip had been set to the buffer end: the skip still reads as that
\* offset, which the child now reaches past.
C23_Witness ==
  /\ lastop.kind = "insert"
  /\ Def(lastop.tag).num_skips > 0
  /\ lastop.at > 0
  /\ lastop.at < lastop.oldlen
  /\ \E p \in PayloadStartsBefore(lastop.at) :
       /\ lastop.old[p] = TagOf("IF")
       /\ ast_get_skip(mbuf, p, 1) = lastop.oldlen
       /\ ast_get_skip(mbuf, p, 1) >= lastop.at
       /\ ast_get_skip(mbuf, p, 1) < Len(mbuf)


\* ---------------------------------------------------------------------------
\* ast_skip_tree, one invocation or one return at a time
\* ---------------------------------------------------------------------------

\* The stack frame of an invocation of ast_skip_tree, ast.c:553-556: its tag,
\* `skips` (the payload start), the fixed subtrees the for loop has yet to
\* skip and the invocations its while loop made.
Frame(tag, skips) ==
  [tag |-> tag, skips |-> skips, left |-> Def(tag).num_subtrees, trailing |-> 0]

\* An invocation of ast_skip_tree(a, &pos), ast.c:553-557: the tag is fetched
\* and the cursor moved to the children; an assert that trips aborts.
Invoke(w) ==
  LET ft == ast_fetch_tag(mbuf, w.pos)
      p1 == IF ft[1] = Fail \/ ft[1] >= AST_MAX_TAG THEN Fail
            ELSE ast_move_to_children(mbuf, ft[2])
  IN IF ft[1] = Fail \/ ft[1] >= AST_MAX_TAG \/ p1 = Fail
     THEN [w EXCEPT !.state = "abort", !.was = w.pos]
     ELSE [w EXCEPT !.pos = p1, !.was = w.pos, !.n = w.n + 1,
                    !.stack = Append(w.stack, Frame(ft[1], ft[2]))]

\* A faulty variant of Resume: the while loop goes on with the cursor on the
\* END skip's target.
Resume_at_end(w) ==
  LET d   == Len(w.stack)
      f   == w.stack[d]
      end == IF Def(f.tag).num_skips > 0
             THEN ast_get_skip(mbuf, f.skips, AST_END_SKIP) ELSE Fail
  IN IF f.left > 0
     THEN Invoke([w EXCEPT !.stack[d].left = f.left - 1])
     ELSE IF Def(f.tag).num_skips > 0 /\ end = Fail
     THEN [w EXCEPT !.state = "abort", !.was = w.pos]
     ELSE IF Def(f.tag).num_skips > 0 /\ w.pos <= end
     THEN Invoke([w EXCEPT !.stack[d].trailing = f.trailing + 1])
     ELSE [w EXCEPT !.stack = SubSeq(w.stack, 1, d - 1), !.was = w.pos,
                    !.state = IF d = 1 THEN "done" ELSE "run"]

\* ast.c:559-569 in the innermost invocation: the next fixed subtree, else
\* the next trailing child while the cursor is below the END skip, else the
\* return to the caller; the assert of ast_get_skip aborts.
Resume(w) ==
  LET d   == Len(w.stack)
      f   == w.stack[d]
      end == IF Def(f.tag).num_skips > 0
             THEN ast_get_skip(mbuf, f.skips, AST_END_SKIP) ELSE Fail
  IN IF f.left > 0
     THEN Invoke([w EXCEPT !.stack[d].left = f.left - 1])
     ELSE IF Def(f.tag).num_skips > 0 /\ end = Fail
     THEN [w EXCEPT !.state = "abort", !.was = w.pos]
     ELSE IF Def(f.tag).num_skips > 0 /\ w.pos < end
     THEN Invoke([w EXCEPT !.stack[d].trailing = f.trailing + 1])
     ELSE [w EXCEPT !.stack = SubSeq(w.stack, 1, d - 1), !.was = w.pos,
                    !.state = IF d = 1 THEN "done" ELSE "run"]

\* A reader calls ast_skip_tree(a, &pos) with the cursor on a node of the
\* buffer, or at its end.
SkipTree(from) ==
  /\ ~asserted
  /\ lastop.kind # "walk"
  /\ lastop' = Invoke([kind |-> "walk", from |-> from, pos |-> from,
                       was |-> from, n |-> 0, stack |-> <<>>, state |-> "run"])
  /\ UNCHANGED <<mbuf, open, closed, asserted, patches, datevars>>

\* The call goes on: a nested invocation or a return.
SkipTreeStep ==
  /\ lastop.kind = "walk"
  /\ lastop.state = "run"
  /\ lastop' = Resume(lastop)
  /\ UNCHANGED <<mbuf, open, closed, asserted, patches, datevars>>

\* Nodes in the buffers ast_skip_tree is called on.
MaxWalkNodes == 3

\* The writer, a skip patched at any time, then one call of ast_skip_tree.
WalkNext ==
  \/ \E tag \in WriterTags : lastop.kind # "walk" /\ AddNode(MaxWalkNodes, tag)
  \/ \E tag \in WriterTags, len \in InlineLens :
        lastop.kind # "walk" /\ AddInlinedNode(MaxWalkNodes, tag, len)
  \/ lastop.kind # "walk" /\ SetSkip
  \/ \E start \in PayloadStarts, which \in 0..1 :
        lastop.kind # "walk" /\ PatchSetSkip(start, which)
  \/ \E from \in NodeStarts : SkipTree(from)
  \/ SkipTreeStep

\* Once called, ast_skip_tree runs on.
WalkSpec == Init /\ [][WalkNext]_vars /\ WF_vars(SkipTreeStep)

\* An invocation of ast_skip_tree got past its asserts in this step.
Invoked ==
  /\ lastop'.kind = "walk"
  /\ lastop'.n > (IF lastop.kind = "walk" THEN lastop.n ELSE 0)

\* C24: every invocation of ast_skip_tree moves the cursor on by at least one
\* byte; a trailing child is skipped only with the cursor below the END skip,
\* so a node whose END skip is zero, or at or before the cursor its fixed
\* children leave, has none; and the call ends, by its return or by an
\* assert.
C24_SkipTreeTerminates ==
  /\ [][Invoked => lastop'.pos > lastop'.was]_vars
  /\ [](lastop.kind = "walk"
        => \A i \in DOMAIN lastop.stack :
             LET f == lastop.stack[i]
             IN f.trailing > 0
                => /\ f.left = 0
                   /\ ast_get_skip(mbuf, f.skips, AST_END_SKIP)
                        > f.skips + SkipSize * Def(f.tag).num_skips)
  /\ (lastop.kind = "walk") ~> (lastop.kind = "walk" /\ lastop.state # "run")

\* ast_skip_tree is skipping a trailing child of the node it was called on,
\* and that child is a node whose END skip is still zero.
C24_Witness ==
  /\ lastop.kind = "walk"
  /\ lastop.state = "run"
  /\ Len(lastop.stack) = 2
  /\ lastop.stack[1].trailing > 0
  /\ Def(lastop.stack[2].tag).num_skips > 0
  /\ ast_get_skip(mbuf, lastop.stack[2].skips, AST_END_SKIP) = lastop.stack[2].skips

\* The call of ast_skip_tree, once over, left the cursor where the recursion
\* of ast.c:552-570 leaves it, and aborted where that trips an assert.
SkipTreeAgrees ==
  (lastop.kind = "walk" /\ lastop.state # "run")
    => IF lastop.state = "done"
       THEN lastop.pos = ast_skip_tree(mbuf, lastop.from)
       ELSE ast_skip_tree(mbuf, lastop.from) = Fail


\* The strings that name the day d of month m (1-based) of 2016 at hms, one
\* for each strategy of d_parsedatestr, with no zone written: the ISO string
\* is UTC, the others local time.
StringsNaming(m, d, hms) ==
  {[str |-> ISOString(2016, m, d, hms), utc |-> TRUE],
   [str |-> RFCString(2016, m, d, hms, <<>>), utc |-> FALSE],
   [str |-> SepString("/", 2016, m, d, hms, <<>>), utc |-> FALSE],
   [str |-> SepString(".", 2016, m, d, hms, <<>>), utc |-> FALSE],
   [str |-> SepString("-", 2016, m, d, hms, <<>>), utc |-> FALSE]}

\* The instant t on the clock the string was written for: UTC, or the local
\* standard time of the host.
OnClock(t, utc) ==
  IF utc THEN t ELSE TimeAdd(t, 0 - d_gettimezone * msPerMinute)

\* str, if it names a day of January or December in one of the formats and
\* d_parsedatestr reports success, is handed back with the month counted
\* from 1, and the instant `time` d_timeFromString made of it is valid and
\* lies in that day.
ParsedAsNamed(str, time) ==
  \A m \in {1, 12}, d \in {1, 31}, hms \in {<<0, 0, 0>>, <<23, 59, 59>>} :
    \A n \in StringsNaming(m, d, hms) :
      (str = n.str /\ d_parsedatestr(str).ok = 1)
      => /\ d_parsedatestr(str).tp.month = m
         /\ ~d_istimeinvalid(time)
         /\ OnClock(time, n.utc).day = InstantOfFields(2016, m, d, hms).day

\* C25: every strategy of d_parsedatestr that reports success hands back the
\* month counted from 1, so that after the decrement of d_timeFromString a
\* valid date of January is neither rejected nor moved to another month.
C25_MonthHandedBackFromOne ==
  out.op = "parse" => ParsedAsNamed(out.str, out.time)

\* C25 where getdate() returns NULL, DATEMSK not being set: strategies #1,
\* #3 and #4.
C25_MonthFromOneWithoutGetdate ==
  (out.op = "parse" /\ ~host.datemsk) => ParsedAsNamed(out.str, out.time)

====
